---- MODULE Spec2Model ----
(***************************************************************************)
(* Device parameters (src/src/par.c) and their storage to non-volatile     *)
(* memory (src/src/par_nvm.c).                                              *)
(*                                                                          *)
(* RAM and NVM are byte arrays, little endian (the target is an STM32).     *)
(* Every API function is an operator on a machine record m that is computed *)
(* the way the C function computes it; an action of the state machine is    *)
(* one call of an API function by the application, or an event of the       *)
(* environment (power loss, cold restart, firmware update, bit rot).        *)
(***************************************************************************)
EXTENDS Integers, Sequences, FiniteSets, TLC

VARIABLES
    par_cfg_table,          \* the descriptor table par_cfg_get_table() returns
    cfg,                    \* build configuration: PAR_CFG_AUTO_SAVE, PAR_CFG_MUTEX_EN
    gb_is_init,             \* par.c: initialization guard
    gpu8_par_value,         \* par.c: live values (byte array, <<>> is NULL)
    gu32_par_addr_offset,   \* par.c: offset of every parameter in the live buffer
    g_par_nvm_data_obj_addr,\* par_nvm.c: NVM look-up table
    nvm,                    \* content of the NVM region PAR_CFG_NVM_REGION
    heap,                   \* blocks malloc gave that were not given to free
    mutex,                  \* the task that holds the mutex of par_if, "" when free
    task,                   \* where every task stands in its par_set, and its locals
    last,                   \* the last API call: what was called and what it returned
    hist                    \* what led to the last call, where a property asks for it

vars == << par_cfg_table, cfg, gb_is_init, gpu8_par_value, gu32_par_addr_offset,
           g_par_nvm_data_obj_addr, nvm, heap, mutex, task, last, hist >>

----------------------------------------------------------------------------
(* Bounds of the model *)

\* data-object slots the NVM region has room for
NvmSlots == 4

\* blocks the heap has room for
MaxBlocks == 2

----------------------------------------------------------------------------
(* Bit operations on naturals *)

\* a XOR b for a, b < 16, bit by bit
XorNibble(a, b) ==
    ((a + b) % 2) + 2 * (((a \div 2) + (b \div 2)) % 2)
        + 4 * (((a \div 4) + (b \div 4)) % 2) + 8 * (((a \div 8) + (b \div 8)) % 2)

XorTable == [a \in 0..15 |-> [b \in 0..15 |-> XorNibble(a, b)]]

\* a XOR b, four bits at a time
RECURSIVE BitXor(_, _)
BitXor(a, b) ==
    IF a = 0 THEN b
    ELSE IF b = 0 THEN a
    ELSE XorTable[a % 16][b % 16] + 16 * BitXor(a \div 16, b \div 16)

RECURSIVE BitOr(_, _)
BitOr(a, b) ==
    IF a = 0 THEN b
    ELSE IF b = 0 THEN a
    ELSE (IF a % 2 = 1 \/ b % 2 = 1 THEN 1 ELSE 0) + 2 * BitOr(a \div 2, b \div 2)

RECURSIVE Pow256(_)
Pow256(n) == IF n = 0 THEN 1 ELSE 256 * Pow256(n - 1)

\* the n bytes of v in memory, lowest first
ToBytes(v, n) == [i \in 1..n |-> (v \div Pow256(i - 1)) % 256]

\* the value the bytes b hold
RECURSIVE FromBytes(_)
FromBytes(b) ==
    IF Len(b) = 0 THEN 0 ELSE b[1] + 256 * FromBytes(Tail(b))

\* memory mem (a function from 0..size-1 to bytes) with b copied to addr
MemCpy(mem, addr, b) ==
    [a \in DOMAIN mem |->
        IF a >= addr /\ a < addr + Len(b) THEN b[a - addr + 1] ELSE mem[a]]

\* the len bytes of mem at addr
MemRead(mem, addr, len) == [i \in 1..len |-> mem[addr + i - 1]]

----------------------------------------------------------------------------
(* Status codes: par_status_t is a bit mask, one bit per entry of gs_status *)

ePAR_OK == 0
ePAR_ERROR == 1
ePAR_ERROR_INIT == 2
ePAR_ERROR_NVM == 4
ePAR_ERROR_CRC == 8
ePAR_WARN_SET_TO_DEF == 16
ePAR_WARN_NVM_REWRITTEN == 32
ePAR_WARN_NO_PERSISTANT == 64

HasBit(status, bit) == (status \div bit) % 2 = 1

----------------------------------------------------------------------------
(* par_nvm.c: layout of the NVM region *)

\* 0xFF00AA55 as it lies in memory
PAR_NVM_SIGN == << 85, 170, 0, 255 >>
PAR_NVM_SIGN_SIZE == 4
PAR_NVM_NB_OF_OBJ_SIZE == 2
PAR_NVM_CRC_SIZE == 2
PAR_NVM_HASH_SIZE == 32
PAR_NVM_HEAD_ADDR == 0
PAR_NVM_HEAD_SIGN_ADDR == PAR_NVM_HEAD_ADDR
PAR_NVM_HEAD_NB_OF_OBJ_ADDR == PAR_NVM_HEAD_SIGN_ADDR + PAR_NVM_SIGN_SIZE
PAR_NVM_HEAD_CRC_ADDR == PAR_NVM_HEAD_NB_OF_OBJ_ADDR + PAR_NVM_NB_OF_OBJ_SIZE
PAR_NVM_HEAD_HASH_ADDR == PAR_NVM_HEAD_CRC_ADDR + PAR_NVM_CRC_SIZE
PAR_NVM_FIRST_DATA_OBJ_ADDR == PAR_NVM_HEAD_HASH_ADDR + PAR_NVM_HASH_SIZE

\* sizeof( par_nvm_head_obj_t ), sizeof( par_nvm_data_obj_t )
SizeofHeadObj == 8
SizeofDataObj == 8
\* the size field par_nvm_write gives every data object
ObjSizeField == 4
\* the stride of the data objects in par_nvm_load_all and par_nvm_build_new_nvm_lut
ObjStride == 8
\* the value of an erased NVM byte
ErasedByte == 255

----------------------------------------------------------------------------
(* par_nvm.c: checksums *)

\* one turn of the inner loop of par_nvm_calc_crc: shift, and xor the
\* polynomial in when the top bit was set; crc16 is a uint16_t
CrcShift(crc16) ==
    IF (crc16 \div 32768) % 2 = 1
    THEN BitXor((crc16 * 2) % 65536, 4129)
    ELSE (crc16 * 2) % 65536

\* the inner loop: j turns
CrcBits[crc16 \in Nat, j \in Nat] ==
    IF j = 0 THEN crc16 ELSE CrcBits[CrcShift(crc16), j - 1]

\* the outer loop over the bytes p_data, from the seed crc16
CrcBytes(crc16, p_data) ==
    LET crc[i \in 0..Len(p_data)] ==
            IF i = 0 THEN crc16
            ELSE CrcBits[BitXor(crc[i - 1], p_data[i] * 256), 8]
    IN crc[Len(p_data)]

\* CRC-16, polynomial 0x1021, seed 0x1234, over the bytes p_data
par_nvm_calc_crc(p_data) == CrcBytes(4660, p_data)

\* a data object is [id, size, crc, data]: data is the 4 bytes of the value slot
par_nvm_calc_obj_crc(obj) ==
    BitXor(BitXor(par_nvm_calc_crc(ToBytes(obj.id, 2)),
                  par_nvm_calc_crc(ToBytes(obj.size, 1))),
           par_nvm_calc_crc(obj.data)) % 256

\* the 8 bytes of a data object in NVM: u16 id, u8 size, u8 crc, u32 data
ObjBytes(obj) ==
    ToBytes(obj.id, 2) \o ToBytes(obj.size, 1) \o ToBytes(obj.crc, 1)
        \o obj.data

\* the data object the 8 bytes b hold
ObjOfBytes(b) ==
    [id |-> FromBytes(SubSeq(b, 1, 2)), size |-> b[3], crc |-> b[4],
     data |-> SubSeq(b, 5, 8)]

\* the 8 bytes of a header in NVM: u32 sign, u16 obj_nb, u16 crc
HeadBytes(head) ==
    head.sign \o ToBytes(head.obj_nb, 2) \o ToBytes(head.crc, 2)

HeadOfBytes(b) ==
    [sign |-> SubSeq(b, 1, 4), obj_nb |-> FromBytes(SubSeq(b, 5, 6)),
     crc |-> FromBytes(SubSeq(b, 7, 8))]

----------------------------------------------------------------------------
(* Values. A value is the sequence of bytes it occupies in memory, lowest   *)
(* byte first: 1, 2 or 4 bytes, compared the way C compares its type.       *)

ParTypes == { "U8", "U16", "U32", "I8", "I16", "I32", "F32" }

\* par_get_type_size: the size of the data type, 0 when the type is unknown
par_get_type_size(type) ==
    CASE type \in { "U8", "I8" } -> 1
      [] type \in { "U16", "I16" } -> 2
      [] type \in { "U32", "I32", "F32" } -> 4
      [] OTHER -> 0

\* a < b as unsigned integers of the same width
RECURSIVE ULess(_, _)
ULess(a, b) ==
    IF Len(a) = 0 THEN FALSE
    ELSE IF a[Len(a)] # b[Len(b)] THEN a[Len(a)] < b[Len(b)]
    ELSE ULess(SubSeq(a, 1, Len(a) - 1), SubSeq(b, 1, Len(b) - 1))

\* two's complement: flipping the sign bit maps signed order to unsigned order
FlipSign(a) == [a EXCEPT ![Len(a)] = (@ + 128) % 256]
SLess(a, b) == ULess(FlipSign(a), FlipSign(b))

\* IEEE 754 single precision: NaN has all exponent bits set and a mantissa
IsNaN(a) == /\ a[4] % 128 = 127 /\ a[3] >= 128
            /\ (a[3] % 128 # 0 \/ a[2] # 0 \/ a[1] # 0)
FNeg(a) == a[4] >= 128
FMag(a) == [a EXCEPT ![4] = @ % 128]
FZero(a) == FMag(a) = << 0, 0, 0, 0 >>
\* a < b as floats: false when either is NaN, and -0 is not less than +0
FLess(a, b) ==
    IF IsNaN(a) \/ IsNaN(b) THEN FALSE
    ELSE IF FNeg(a) /\ ~FNeg(b) THEN ~(FZero(a) /\ FZero(b))
    ELSE IF ~FNeg(a) /\ FNeg(b) THEN FALSE
    ELSE IF FNeg(a) THEN ULess(FMag(b), FMag(a))
    ELSE ULess(FMag(a), FMag(b))

\* a < b at the given type; a > b is Less(type, b, a)
Less(type, a, b) ==
    CASE type \in { "U8", "U16", "U32" } -> ULess(a, b)
      [] type \in { "I8", "I16", "I32" } -> SLess(a, b)
      [] type = "F32" -> FLess(a, b)

\* a <= b at the given type (for floats: false when either is NaN)
LessEq(type, a, b) ==
    IF type = "F32" THEN FLess(a, b) \/ (~IsNaN(a) /\ ~IsNaN(b) /\ (a = b \/ (FZero(a) /\ FZero(b))))
    ELSE Less(type, a, b) \/ a = b

\* the member of the union par_type_t the type selects: its first bytes
Member(type, u) == SubSeq(u, 1, par_get_type_size(type))

----------------------------------------------------------------------------
(* The machine. m is the state the C functions work on:                     *)
(*   tbl   the descriptor table: a function from 0..ePAR_NUM_OF-1 to descriptors    *)
(*         [id, type, min, max, def, access, persistant]                    *)
(*   cfg   [auto_save, mutex_en]                                            *)
(*   init  gb_is_init          buf  gpu8_par_value                          *)
(*   off   gu32_par_addr_offset     lut  g_par_nvm_data_obj_addr            *)
(*   nvm   the NVM region                                                   *)
(* and what the environment does to this call:                              *)
(*   cnt   NVM driver calls made so far, fail  the one that fails (0: none) *)
(*   acq   mutex acquisitions so far,    mfail the one that fails (0: none) *)
(*   log   the NVM driver calls made, each with the region's content after  *)
(*   mlog  the calls of the mutex interface made                            *)
(*   undef what a read through a NULL pointer gives                         *)
(*   heap  blocks malloc gave that were not given to free                   *)
(* A C function f(args) is an operator f(m, args) to a record [m, status]   *)
(* and the function's outputs.                                              *)

ePAR_NUM_OF(tbl) == Cardinality(DOMAIN tbl)

NvmSize == PAR_NVM_FIRST_DATA_OBJ_ADDR + ObjStride * NvmSlots

\* the NVM driver: the fail-th call of an API call fails and does nothing,
\* and so does an access outside the region
NvmCallOk(m, addr, len) == m.cnt + 1 # m.fail /\ addr + len <= NvmSize

\* arg is what the call was given besides the address: the bytes of a
\* write, the length of a read or an erase
Logged(m, fn, op, addr, arg, ok, after) ==
    [m EXCEPT !.cnt = @ + 1, !.nvm = after,
              !.log = Append(@, [fn |-> fn, op |-> op, addr |-> addr, arg |-> arg,
                                 ok |-> ok, nvm |-> after])]

nvm_read(m, fn, addr, len) ==
    LET ok == NvmCallOk(m, addr, len)
    IN [m |-> Logged(m, fn, "read", addr, len, ok, m.nvm),
        status |-> IF ok THEN "eNVM_OK" ELSE "eNVM_ERROR",
        data |-> IF ok THEN MemRead(m.nvm, addr, len) ELSE << >>]

nvm_write(m, fn, addr, bytes) ==
    LET ok == NvmCallOk(m, addr, Len(bytes))
    IN [m |-> Logged(m, fn, "write", addr, bytes, ok,
                     IF ok THEN MemCpy(m.nvm, addr, bytes) ELSE m.nvm),
        status |-> IF ok THEN "eNVM_OK" ELSE "eNVM_ERROR"]

nvm_erase(m, fn, addr, len) ==
    LET ok == NvmCallOk(m, addr, len)
    IN [m |-> Logged(m, fn, "erase", addr, len, ok,
                     IF ok THEN MemCpy(m.nvm, addr, [i \in 1..len |-> ErasedByte])
                     ELSE m.nvm),
        status |-> IF ok THEN "eNVM_OK" ELSE "eNVM_ERROR"]

\* the platform interface: the mfail-th acquisition of an API call fails
par_if_aquire_mutex(m) ==
    [m |-> [m EXCEPT !.acq = @ + 1,
                     !.mlog = Append(@, IF m.acq + 1 = m.mfail THEN "refused"
                                        ELSE "acquired")],
     status |-> IF m.acq + 1 = m.mfail THEN ePAR_ERROR ELSE ePAR_OK]

par_if_release_mutex(m) == [m EXCEPT !.mlog = Append(@, "released")]

----------------------------------------------------------------------------
(* par.c: the live values *)

RECURSIVE AlignUp(_, _)
AlignUp(total_size, n) ==
    IF total_size % n # 0 THEN AlignUp(total_size + 1, n) ELSE total_size

\* par_calc_ram_usage from parameter par_num on: [total, off]
RECURSIVE CalcRamUsage(_, _, _, _)
CalcRamUsage(tbl, par_num, total_size, off) ==
    IF par_num >= ePAR_NUM_OF(tbl) THEN [total |-> total_size, off |-> off]
    ELSE LET type == tbl[par_num].type
             aligned == IF type \in { "U16", "I16" } THEN AlignUp(total_size, 2)
                        ELSE IF type \in { "U32", "I32", "F32" }
                             THEN AlignUp(total_size, 4)
                             ELSE total_size
         IN CalcRamUsage(tbl, par_num + 1, aligned + par_get_type_size(type),
                         [off EXCEPT ![par_num] = aligned])

\* the size is computed and no offset is stored
RamUsageUnstored(m) ==
    [m |-> m, total_size |-> CalcRamUsage(m.tbl, 0, 0, m.off).total]

par_calc_ram_usage(m) ==
    LET r == CalcRamUsage(m.tbl, 0, 0, m.off)
    IN [m |-> [m EXCEPT !.off = r.off], total_size |-> r.total]

\* malloc gives memory of unspecified content; the model gives zeros, and
\* par_load_default overwrites every byte that is ever read
par_allocate_ram_space(m) ==
    LET r == par_calc_ram_usage(m)
    IN [m |-> [r.m EXCEPT !.buf = [a \in 0..(r.total_size - 1) |-> 0],
                          !.heap = @ + 1],
        status |-> ePAR_OK]

\* par_load_default from parameter par_num on
RECURSIVE LoadDefault(_, _)
LoadDefault(m, par_num) ==
    IF par_num >= ePAR_NUM_OF(m.tbl) THEN m
    ELSE LoadDefault([m EXCEPT !.buf = MemCpy(@, m.off[par_num],
                          Member(m.tbl[par_num].type, m.tbl[par_num].def))],
                     par_num + 1)

par_load_default(m) == LoadDefault(m, 0)

\* the live value of parameter par_num as it lies in the buffer
LiveValue(buf, off, tbl, par_num) ==
    MemRead(buf, off[par_num], par_get_type_size(tbl[par_num].type))

\* a limitation that forgets the lower limit
LimitedAbove(type, min, max, val) == IF Less(type, max, val) THEN max ELSE val

\* the value par_set_u8 .. par_set_f32 store: val limited to [min, max]
Limited(type, min, max, val) ==
    IF Less(type, max, val) THEN max
    ELSE IF Less(type, val, min) THEN min
    ELSE val

\* par_set_u8 .. par_set_f32: store val, limited to [min, max] of the descriptor
StoreLimited(m, par_num, type, val) ==
    [m |-> [m EXCEPT !.buf = MemCpy(@, m.off[par_num],
                                    Limited(type, Member(type, m.tbl[par_num].min),
                                            Member(type, m.tbl[par_num].max), val))],
     status |-> ePAR_OK]

par_set_u8(m, par_num, u8_val) == StoreLimited(m, par_num, "U8", u8_val)
par_set_i8(m, par_num, i8_val) == StoreLimited(m, par_num, "I8", i8_val)
par_set_u16(m, par_num, u16_val) == StoreLimited(m, par_num, "U16", u16_val)
par_set_i16(m, par_num, i16_val) == StoreLimited(m, par_num, "I16", i16_val)
par_set_u32(m, par_num, u32_val) == StoreLimited(m, par_num, "U32", u32_val)
par_set_i32(m, par_num, i32_val) == StoreLimited(m, par_num, "I32", i32_val)
par_set_f32(m, par_num, f32_val) == StoreLimited(m, par_num, "F32", f32_val)

\* what par_get leaves in *p_val when gp_par_table and gpu8_par_value are
\* NULL, before the first par_init: undefined behaviour, any bytes or none
UndefinedReads == { << >>, << 0 >>, << 255 >> }

\* par_get after the mutex acquisition returned a
GetLocked(a, par_num) ==
    IF a.status = ePAR_OK
    THEN [m |-> IF a.m.cfg.mutex_en THEN par_if_release_mutex(a.m) ELSE a.m,
          status |-> ePAR_OK,
          val |-> IF a.m.buf = << >> THEN a.m.undef
                  ELSE LiveValue(a.m.buf, a.m.off, a.m.tbl, par_num)]
    ELSE [m |-> a.m, status |-> ePAR_ERROR, val |-> << >>]

\* par_get: [m, status, val]; val is << >> when nothing was written to *p_val
par_get(m, par_num) ==
    GetLocked(IF m.cfg.mutex_en THEN par_if_aquire_mutex(m)
              ELSE [m |-> m, status |-> ePAR_OK],
              par_num)

\* par_get_num_by_id: [status, par_num]; par_num is -1 when nothing was
\* written to *p_par_num
RECURSIVE NumById(_, _, _)
NumById(tbl, id, par_num) ==
    IF par_num >= ePAR_NUM_OF(tbl) THEN -1
    ELSE IF tbl[par_num].id = id THEN par_num
    ELSE NumById(tbl, id, par_num + 1)

\* a par_get_num_by_id that finds every id at the first descriptor
FirstForEveryId(m, id) ==
    IF m.init THEN [status |-> ePAR_OK, par_num |-> 0]
    ELSE [status |-> ePAR_ERROR_INIT, par_num |-> -1]

par_get_num_by_id(m, id) ==
    IF m.init
    THEN LET n == NumById(m.tbl, id, 0)
         IN IF n >= 0 THEN [status |-> ePAR_OK, par_num |-> n]
            ELSE [status |-> ePAR_ERROR, par_num |-> -1]
    ELSE [status |-> ePAR_ERROR_INIT, par_num |-> -1]

\* par_is_init, par_get_id, par_get_type, par_get_range: [m, status, val], the
\* pointer they are given is never NULL; val is << >> when nothing was
\* written through it
par_is_init(m) == [m |-> m, status |-> ePAR_OK, val |-> m.init]

par_get_id(m, par_num) ==
    IF m.init
    THEN IF par_num < ePAR_NUM_OF(m.tbl)
         THEN [m |-> m, status |-> ePAR_OK, val |-> m.tbl[par_num].id % 65536]
         ELSE [m |-> m, status |-> ePAR_ERROR, val |-> << >>]
    ELSE [m |-> m, status |-> ePAR_ERROR_INIT, val |-> << >>]

par_get_type(m, par_num) ==
    IF m.init /\ ePAR_NUM_OF(m.tbl) > par_num
    THEN [m |-> m, status |-> ePAR_OK, val |-> m.tbl[par_num].type]
    ELSE [m |-> m, status |-> ePAR_ERROR, val |-> << >>]

par_get_range(m, par_num) ==
    IF m.init /\ ePAR_NUM_OF(m.tbl) > par_num
    THEN [m |-> m, status |-> ePAR_OK,
          val |-> << m.tbl[par_num].min, m.tbl[par_num].max >>]
    ELSE [m |-> m, status |-> ePAR_ERROR, val |-> << >>]

----------------------------------------------------------------------------
(* par_nvm.c: writing one parameter; par.c: par_save and par_set *)

\* what a function that made the driver call w returns
NvmStatus(w) == IF w.status # "eNVM_OK" THEN ePAR_ERROR_NVM ELSE ePAR_OK
NvmResult(w) == [m |-> w.m, status |-> NvmStatus(w)]

\* status |= r.status, for a call that returned r
OrStatus(status, r) == [m |-> r.m, status |-> BitOr(status, r.status)]

\* par_nvm_get_nvm_lut_addr from entry par_num on
RECURSIVE LutAddr(_, _, _)
LutAddr(lut, id, par_num) ==
    IF par_num >= Cardinality(DOMAIN lut) THEN 0
    ELSE IF id = lut[par_num].id THEN lut[par_num].addr
    ELSE LutAddr(lut, id, par_num + 1)

par_nvm_get_nvm_lut_addr(m, id) == LutAddr(m.lut, id, 0)

\* obj_data.data after par_get wrote val to it: obj_data was zeroed before
SlotOf(val) == val \o [i \in 1..(4 - Len(val)) |-> 0]

\* par_nvm_write once obj_data has id, size and data: the checksum, the
\* address, the write
WriteObject(m, obj_data) ==
    NvmResult(nvm_write(m, "par_nvm_write", par_nvm_get_nvm_lut_addr(m, obj_data.id),
                        ObjBytes([obj_data EXCEPT !.crc = par_nvm_calc_obj_crc(obj_data)])))

\* par_nvm_write once par_get has returned g; its status is not looked at
WriteValue(g, id) ==
    WriteObject(g.m, [id |-> id, size |-> ObjSizeField, crc |-> 0, data |-> SlotOf(g.val)])

\* a par_nvm_write that does not ask whether the parameter is persistent
WriteUnasked(m, par_num) ==
    WriteValue(par_get(m, par_num), m.tbl[par_num].id % 65536)

par_nvm_write(m, par_num) ==
    IF par_num < ePAR_NUM_OF(m.tbl)
    THEN IF m.tbl[par_num].persistant
         THEN WriteValue(par_get(m, par_num), m.tbl[par_num].id % 65536)
         ELSE [m |-> m, status |-> ePAR_ERROR]
    ELSE [m |-> m, status |-> ePAR_ERROR]

\* par.c passes a second argument (true) that par_nvm_write of par_nvm.c
\* does not take
par_save(m, par_num) ==
    IF m.init THEN par_nvm_write(m, par_num)
    ELSE [m |-> m, status |-> ePAR_ERROR_INIT]

\* the switch of par_set over the type of the parameter
SetTyped(m, par_num, type, val) ==
    CASE type = "U8" -> par_set_u8(m, par_num, val)
      [] type = "I8" -> par_set_i8(m, par_num, val)
      [] type = "U16" -> par_set_u16(m, par_num, val)
      [] type = "I16" -> par_set_i16(m, par_num, val)
      [] type = "U32" -> par_set_u32(m, par_num, val)
      [] type = "I32" -> par_set_i32(m, par_num, val)
      [] type = "F32" -> par_set_f32(m, par_num, val)

\* par_set after the typed set returned s and the mutex was released:
\* PAR_CFG_AUTO_SAVE
SetSaved(s, par_num) ==
    IF s.m.cfg.auto_save THEN OrStatus(s.status, par_save(s.m, par_num)) ELSE s

\* par_set after the typed set returned s: PAR_CFG_MUTEX_EN
SetReleased(s, par_num) ==
    SetSaved(IF s.m.cfg.mutex_en THEN [s EXCEPT !.m = par_if_release_mutex(@)] ELSE s,
             par_num)

\* par_set that goes on without the mutex
SetUnlocked(a, par_num, p_val) ==
    SetReleased(SetTyped(a.m, par_num, a.m.tbl[par_num].type,
                         Member(a.m.tbl[par_num].type, p_val)),
                par_num)

\* par_set after the mutex acquisition returned a
SetLocked(a, par_num, p_val) ==
    IF a.status = ePAR_OK
    THEN SetReleased(SetTyped(a.m, par_num, a.m.tbl[par_num].type,
                              Member(a.m.tbl[par_num].type, p_val)),
                     par_num)
    ELSE [m |-> a.m, status |-> ePAR_ERROR]

\* p_val points to at least as many bytes as the parameter's type has
par_set(m, par_num, p_val) ==
    IF m.init
    THEN IF par_num < ePAR_NUM_OF(m.tbl)
         THEN SetLocked(IF m.cfg.mutex_en THEN par_if_aquire_mutex(m)
                        ELSE [m |-> m, status |-> ePAR_OK],
                        par_num, p_val)
         ELSE [m |-> m, status |-> ePAR_ERROR]
    ELSE [m |-> m, status |-> ePAR_ERROR_INIT]

par_set_to_default(m, par_num) ==
    IF m.init
    THEN IF par_num < ePAR_NUM_OF(m.tbl)
         THEN par_set(m, par_num, m.tbl[par_num].def)
         ELSE [m |-> m, status |-> ePAR_ERROR]
    ELSE [m |-> m, status |-> ePAR_ERROR_INIT]

\* the loop of par_set_all_to_default from parameter par_num on
RECURSIVE SetAllToDefault(_, _)
SetAllToDefault(m, par_num) ==
    IF par_num >= ePAR_NUM_OF(m.tbl) THEN m
    ELSE SetAllToDefault(par_set_to_default(m, par_num).m, par_num + 1)

\* par_set_all_to_default whose loop starts at the second parameter
SetAllButFirstToDefault(m) ==
    IF m.init THEN [m |-> SetAllToDefault(m, 1), status |-> ePAR_OK]
    ELSE [m |-> m, status |-> ePAR_ERROR_INIT]

par_set_all_to_default(m) ==
    IF m.init THEN [m |-> SetAllToDefault(m, 0), status |-> ePAR_OK]
    ELSE [m |-> m, status |-> ePAR_ERROR_INIT]

----------------------------------------------------------------------------
(* par_nvm.c: signature and header *)

\* par_nvm_read_signature that does not compare what it read
SignatureReadUnchecked(r) == [m |-> r.m, status |-> NvmStatus(r)]

\* par_nvm_read_signature after the driver returned r
SignatureRead(r) ==
    [m |-> r.m,
     status |-> IF r.status # "eNVM_OK" THEN ePAR_ERROR_NVM
                ELSE IF PAR_NVM_SIGN = r.data THEN ePAR_OK
                ELSE ePAR_ERROR]

par_nvm_read_signature(m) ==
    SignatureRead(nvm_read(m, "par_nvm_read_signature", PAR_NVM_HEAD_SIGN_ADDR,
                           PAR_NVM_SIGN_SIZE))

par_nvm_write_signature(m) ==
    NvmResult(nvm_write(m, "par_nvm_write_signature", PAR_NVM_HEAD_SIGN_ADDR,
                        PAR_NVM_SIGN))

par_nvm_corrupt_signature(m) ==
    NvmResult(nvm_erase(m, "par_nvm_corrupt_signature", PAR_NVM_HEAD_SIGN_ADDR,
                        PAR_NVM_SIGN_SIZE))

\* par_nvm_read_header that takes the object count without its CRC
HeaderUnchecked(m, head_obj) ==
    [m |-> m, status |-> ePAR_OK, num_of_par |-> head_obj.obj_nb]

\* par_nvm_read_header once head_obj is read: the CRC of the object count
HeaderChecked(m, head_obj) ==
    IF par_nvm_calc_crc(ToBytes(head_obj.obj_nb, PAR_NVM_NB_OF_OBJ_SIZE)) = head_obj.crc
    THEN [m |-> m, status |-> ePAR_OK, num_of_par |-> head_obj.obj_nb]
    ELSE [m |-> m, status |-> ePAR_ERROR_CRC, num_of_par |-> 0]

\* par_nvm_read_header after the driver returned r
HeaderRead(r) ==
    IF r.status # "eNVM_OK"
    THEN [m |-> r.m, status |-> ePAR_ERROR_NVM, num_of_par |-> 0]
    ELSE HeaderChecked(r.m, HeadOfBytes(r.data))

\* par_nvm_read_header: [m, status, num_of_par]
par_nvm_read_header(m) ==
    HeaderRead(nvm_read(m, "par_nvm_read_header", PAR_NVM_HEAD_ADDR, SizeofHeadObj))

\* par_nvm_write_header after the driver returned w: the signature is
\* written after the header
HeaderWritten(w) == OrStatus(NvmStatus(w), par_nvm_write_signature(w.m))

\* head_obj is zeroed, so the header is written with a signature of 0
par_nvm_write_header(m, num_of_par) ==
    HeaderWritten(nvm_write(m, "par_nvm_write_header", PAR_NVM_HEAD_ADDR,
                            HeadBytes([sign |-> << 0, 0, 0, 0 >>,
                                       obj_nb |-> num_of_par,
                                       crc |-> par_nvm_calc_crc(
                                                   ToBytes(num_of_par,
                                                           PAR_NVM_NB_OF_OBJ_SIZE))])))

----------------------------------------------------------------------------
(* par_nvm.c: writing and resetting the whole region *)

\* the loop of par_nvm_write_all from parameter par_num on: [m, status, per_par_nb]
RECURSIVE WriteAllLoop(_, _, _, _)
RECURSIVE WriteAllNext(_, _, _, _)
WriteAllLoop(m, par_num, status, per_par_nb) ==
    IF par_num >= ePAR_NUM_OF(m.tbl)
    THEN [m |-> m, status |-> status, per_par_nb |-> per_par_nb]
    ELSE IF m.tbl[par_num].persistant
         THEN WriteAllNext(par_nvm_write(m, par_num), par_num, status, per_par_nb)
         ELSE WriteAllLoop(m, par_num + 1, status, per_par_nb)

\* the rest of an iteration in which par_nvm_write returned w
WriteAllNext(w, par_num, status, per_par_nb) ==
    WriteAllLoop(w.m, par_num + 1, BitOr(status, w.status), per_par_nb + 1)

\* par_nvm_write_all after the loop returned l: the header
WriteAllHeader(l) == OrStatus(l.status, par_nvm_write_header(l.m, l.per_par_nb))

\* par_nvm_write_all after par_nvm_corrupt_signature returned c: the loop
WriteAllObjects(c) == WriteAllHeader(WriteAllLoop(c.m, 0, c.status, 0))

\* par_nvm_write_all that does not erase the signature first
WriteAllKeepingSignature(m) == WriteAllHeader(WriteAllLoop(m, 0, ePAR_OK, 0))

par_nvm_write_all(m) == WriteAllObjects(par_nvm_corrupt_signature(m))

\* a layout that puts every object at the address of the first
FirstLutAddr(lut, per_par_nb) == PAR_NVM_FIRST_DATA_OBJ_ADDR

\* the address par_nvm_build_new_nvm_lut gives the per_par_nb-th object
NewLutAddr(lut, per_par_nb) ==
    IF per_par_nb = 0 THEN PAR_NVM_FIRST_DATA_OBJ_ADDR
    ELSE lut[per_par_nb - 1].addr + ObjStride

\* the loop of par_nvm_build_new_nvm_lut from parameter par_num on
RECURSIVE BuildLut(_, _, _, _)
BuildLut(tbl, lut, par_num, per_par_nb) ==
    IF par_num >= ePAR_NUM_OF(tbl) THEN lut
    ELSE IF tbl[par_num].persistant
         THEN BuildLut(tbl,
                       [lut EXCEPT ![per_par_nb] =
                            [addr |-> NewLutAddr(lut, per_par_nb),
                             id |-> tbl[par_num].id % 65536]],
                       par_num + 1, per_par_nb + 1)
         ELSE BuildLut(tbl, lut, par_num + 1, per_par_nb)

par_nvm_build_new_nvm_lut(m) == [m EXCEPT !.lut = BuildLut(m.tbl, m.lut, 0, 0)]

par_nvm_reset_all(m) == par_nvm_write_all(par_nvm_build_new_nvm_lut(m))

\* par_nvm_validate_header after par_nvm_reset_all returned x
HeaderReset(x) == [m |-> x.m, status |-> x.status, num_of_par |-> 0]

\* par_nvm_validate_header after par_nvm_read_header returned r
HeaderValidated(r) ==
    IF r.status = ePAR_ERROR_NVM
    THEN [m |-> r.m, status |-> r.status, num_of_par |-> 0]
    ELSE IF r.status = ePAR_OK /\ r.num_of_par > 0
         THEN [m |-> r.m, status |-> ePAR_OK, num_of_par |-> r.num_of_par]
         ELSE HeaderReset(par_nvm_reset_all(r.m))

\* par_nvm_validate_header: [m, status, num_of_par]; num_of_par is what the
\* caller's obj_nb holds afterwards: it was 0 and is set only when the header is good
par_nvm_validate_header(m) == HeaderValidated(par_nvm_read_header(m))

\* par_nvm_get_per_par from parameter par_num on
RECURSIVE GetPerPar(_, _)
GetPerPar(tbl, par_num) ==
    IF par_num >= ePAR_NUM_OF(tbl) THEN 0
    ELSE (IF tbl[par_num].persistant THEN 1 ELSE 0) + GetPerPar(tbl, par_num + 1)

par_nvm_get_per_par(m) == GetPerPar(m.tbl, 0)

----------------------------------------------------------------------------
(* par_nvm.c: loading *)

\* obj_data of par_nvm_load_all after the driver returned r: it keeps its
\* zeroes when the read failed
ObjRead(r) ==
    IF r.status = "eNVM_OK" THEN ObjOfBytes(r.data)
    ELSE [id |-> 0, size |-> 0, crc |-> 0, data |-> << 0, 0, 0, 0 >>]

\* the loop of par_nvm_load_all: par_num is the loop counter, which
\* par_get_num_by_id overwrites with the number of the parameter found;
\* obj_data and nvm_status are those of the last read
RECURSIVE LoadAllLoop(_, _, _, _, _, _)
RECURSIVE LoadRead(_, _, _, _)
RECURSIVE LoadNext(_, _, _, _)
RECURSIVE LoadObject(_, _, _, _, _, _)
LoadAllLoop(m, par_num, num_of_par, obj_addr, obj_data, nvm_status) ==
    IF par_num >= num_of_par THEN [m |-> m, status |-> ePAR_OK]
    ELSE IF nvm_status # "eNVM_OK" THEN [m |-> m, status |-> ePAR_ERROR_NVM]
    ELSE IF par_nvm_calc_obj_crc(obj_data) # obj_data.crc
         THEN [m |-> m, status |-> ePAR_ERROR_CRC]
    ELSE LoadObject(m, par_get_num_by_id(m, obj_data.id), par_num, num_of_par,
                    obj_addr, obj_data)

\* an iteration after par_get_num_by_id returned f: the value, the address
LoadObject(m, f, par_num, num_of_par, obj_addr, obj_data) ==
    IF f.status = ePAR_OK
    THEN LoadNext([par_set(m, f.par_num, obj_data.data).m EXCEPT
                      !.lut[f.par_num] = [addr |-> obj_addr, id |-> obj_data.id]],
                  f.par_num, num_of_par, obj_addr)
    ELSE LoadNext(m, par_num, num_of_par, obj_addr)

\* the end of an iteration: the read of the next object
LoadNext(m, par_num, num_of_par, obj_addr) ==
    LoadRead(nvm_read(m, "par_nvm_load_all", obj_addr + ObjStride, SizeofDataObj),
             par_num, num_of_par, obj_addr)

\* after the driver returned r
LoadRead(r, par_num, num_of_par, obj_addr) ==
    IF r.status = "eNVM_ERROR"
    THEN [m |-> r.m, status |-> ePAR_ERROR_NVM]
    ELSE LoadAllLoop(r.m, par_num + 1, num_of_par, obj_addr + ObjStride,
                     ObjOfBytes(r.data), r.status)

\* par_nvm_load_all after the driver returned r for the first object
LoadFirst(r, num_of_par) ==
    LoadAllLoop(r.m, 0, num_of_par, PAR_NVM_FIRST_DATA_OBJ_ADDR, ObjRead(r), r.status)

par_nvm_load_all(m, num_of_par) ==
    LoadFirst(nvm_read(m, "par_nvm_load_all", PAR_NVM_FIRST_DATA_OBJ_ADDR,
                       SizeofDataObj),
              num_of_par)

\* the live values stay as par_nvm_load_all left them
InitLoadedKept(l) ==
    IF l.status = ePAR_ERROR_CRC THEN par_nvm_reset_all(l.m) ELSE l

\* par_nvm_init after par_nvm_load_all returned l
InitLoaded(l) ==
    IF l.status = ePAR_ERROR_CRC THEN par_nvm_reset_all(l.m)
    ELSE IF l.status = ePAR_ERROR_NVM
         THEN [m |-> par_set_all_to_default(l.m).m, status |-> l.status]
         ELSE l

\* par_nvm_init after par_nvm_validate_header returned v
InitValidated(v) ==
    IF v.status = ePAR_OK THEN InitLoaded(par_nvm_load_all(v.m, v.num_of_par))
    ELSE [m |-> v.m, status |-> v.status]

\* par_nvm_init after par_nvm_read_signature returned s
InitSigned(s) ==
    IF s.status = ePAR_OK THEN InitValidated(par_nvm_validate_header(s.m))
    ELSE IF s.status = ePAR_ERROR THEN par_nvm_reset_all(s.m)
    ELSE s

par_nvm_init(m) ==
    IF par_nvm_get_per_par(m) > 0 THEN InitSigned(par_nvm_read_signature(m))
    ELSE [m |-> m, status |-> ePAR_OK]

----------------------------------------------------------------------------
(* par.c: initialization *)

\* what the range assertions of par_check_table_validy ask of a descriptor
RangeOk(d) ==
    /\ Less(d.type, Member(d.type, d.min), Member(d.type, d.max))
    /\ LessEq(d.type, Member(d.type, d.def), Member(d.type, d.max))
    /\ LessEq(d.type, Member(d.type, d.min), Member(d.type, d.def))

DuplicateId(tbl) ==
    \E i, j \in DOMAIN tbl : i # j /\ tbl[i].id = tbl[j].id

\* a check that finds every table well defined
TableUnchecked(tbl) == [status |-> ePAR_OK, asserted |-> FALSE]

\* par_check_table_validy: [status, asserted]; asserted says that a PAR_ASSERT
\* of the function failed
par_check_table_validy(tbl) ==
    IF DuplicateId(tbl) THEN [status |-> ePAR_ERROR, asserted |-> TRUE]
    ELSE [status |-> ePAR_OK, asserted |-> \E i \in DOMAIN tbl : ~RangeOk(tbl[i])]

\* par_init once the table is checked, the RAM allocated and the interface
\* initialized with the accumulated status: gb_is_init, the defaults, the NVM
InitNvm(m, status) ==
    OrStatus(status, par_nvm_init(par_load_default([m EXCEPT !.init = (status = ePAR_OK)])))

\* par_init after par_allocate_ram_space returned a
InitAllocated(a, status) == InitNvm(a.m, BitOr(status, a.status))

\* par_init without the check of gb_is_init
InitAgain(m, if_status) ==
    InitAllocated(par_allocate_ram_space(m),
                  BitOr(par_check_table_validy(m.tbl).status, if_status))

\* par_init; if_status is what par_if_init() of the platform returns
par_init(m, if_status) ==
    IF ~m.init
    THEN InitAllocated(par_allocate_ram_space(m),
                       BitOr(par_check_table_validy(m.tbl).status, if_status))
    ELSE [m |-> m, status |-> ePAR_ERROR_INIT]

\* par_save_all, par_save_clean
par_save_all(m) ==
    IF m.init THEN par_nvm_write_all(m)
    ELSE [m |-> m, status |-> ePAR_ERROR_INIT]

par_save_clean(m) ==
    IF m.init THEN par_nvm_reset_all(m)
    ELSE [m |-> m, status |-> ePAR_ERROR_INIT]

\* par_nvm_deinit is not part of par_nvm.c: it releases nothing of this model
par_nvm_deinit(m) == [m |-> m, status |-> ePAR_OK]

\* a par_deinit that leaves gb_is_init as it is
DeinitedKeepingFlag(d) == d

\* par_deinit after par_nvm_deinit returned d
Deinited(d) == [m |-> [d.m EXCEPT !.init = FALSE], status |-> d.status]

par_deinit(m) ==
    IF m.init THEN Deinited(par_nvm_deinit(m))
    ELSE [m |-> m, status |-> ePAR_ERROR_INIT]

----------------------------------------------------------------------------
(* Descriptor tables and inputs *)

\* a value of 1, 2 or 4 bytes as the union par_type_t holds it
Union(b) == SlotOf(b)

Desc(id, type, min, max, def, access, persistant) ==
    [id |-> id, type |-> type, min |-> Union(min), max |-> Union(max),
     def |-> Union(def), access |-> access, persistant |-> persistant]

\* b + 1 and b - 1 at the width of b
RECURSIVE IncBytes(_)
IncBytes(b) ==
    IF Len(b) = 0 THEN << >>
    ELSE IF b[1] < 255 THEN << b[1] + 1 >> \o Tail(b)
    ELSE << 0 >> \o IncBytes(Tail(b))

RECURSIVE DecBytes(_)
DecBytes(b) ==
    IF Len(b) = 0 THEN << >>
    ELSE IF b[1] > 0 THEN << b[1] - 1 >> \o Tail(b)
    ELSE << 255 >> \o DecBytes(Tail(b))

\* the lowest and the highest value of a type
TypeMin(type) ==
    LET n == par_get_type_size(type)
    IN CASE type \in { "U8", "U16", "U32" } -> [i \in 1..n |-> 0]
         [] type \in { "I8", "I16", "I32" } -> [i \in 1..n |-> IF i = n THEN 128 ELSE 0]
         [] type = "F32" -> << 0, 0, 128, 255 >>     \* -infinity

TypeMax(type) ==
    LET n == par_get_type_size(type)
    IN CASE type \in { "U8", "U16", "U32" } -> [i \in 1..n |-> 255]
         [] type \in { "I8", "I16", "I32" } -> [i \in 1..n |-> IF i = n THEN 127 ELSE 255]
         [] type = "F32" -> << 0, 0, 128, 127 >>     \* +infinity

\* floats: 0.0, -0.0, 1.0, 1.5, 2.0, 3.0, -1.0, quiet NaN
F32_0 == << 0, 0, 0, 0 >>
F32_m0 == << 0, 0, 0, 128 >>
F32_1 == << 0, 0, 128, 63 >>
F32_1h == << 0, 0, 192, 63 >>
F32_2 == << 0, 0, 0, 64 >>
F32_3 == << 0, 0, 64, 64 >>
F32_m1 == << 0, 0, 128, 191 >>
F32_NaN == << 0, 0, 192, 127 >>

\* three descriptors of different types, each with two values in its range
DescA(persistant) == Desc(1, "U8", << 1 >>, << 2 >>, << 1 >>, "RW", persistant)
DescB(persistant) ==
    Desc(2, "I16", << 255, 255 >>, << 0, 0 >>, << 0, 0 >>, "RO", persistant)
DescC(persistant) ==
    Desc(3, "U32", << 255, 255, 0, 0 >>, << 0, 0, 1, 0 >>, << 255, 255, 0, 0 >>,
         "RW", persistant)

\* the table of the three with the given persistence flags
Table3(pa, pb, pc) == [i \in 0..2 |-> CASE i = 0 -> DescA(pa)
                                       [] i = 1 -> DescB(pb)
                                       [] i = 2 -> DescC(pc)]

\* the tables of three descriptors: every mix of persistent and non-persistent
Tables3 == { Table3(pa, pb, pc) : pa \in BOOLEAN, pb \in BOOLEAN, pc \in BOOLEAN }

\* a table of one persistent descriptor of the type, with the range lo .. lo + 2
\* and the default lo + 1
Table1(type, lo) ==
    [i \in 0..0 |-> Desc(0, type, lo, IncBytes(IncBytes(lo)), IncBytes(lo), "RW", TRUE)]

\* where the ranges of the one-descriptor tables start: at the lowest value of
\* the type, two below its highest value, and at a value in between where the
\* range crosses a byte or the sign
IntLows(type) ==
    LET n == par_get_type_size(type)
    IN { TypeMin(type), DecBytes(DecBytes(TypeMax(type))),
         CASE type = "U8" -> << 10 >>
           [] type \in { "U16", "U32" } -> [i \in 1..n |-> IF i = 1 THEN 255 ELSE 0]
           [] OTHER -> [i \in 1..n |-> 255] }

IntTypes == { "U8", "I8", "U16", "I16", "U32", "I32" }

\* the tables of one descriptor: every type, a float with the range 1.0 .. 2.0
Tables1 ==
    UNION { { Table1(type, lo) : lo \in IntLows(type) } : type \in IntTypes }
    \cup { [i \in 0..0 |-> Desc(0, "F32", F32_1, F32_2, F32_1h, "RW", TRUE)] }

\* the table a firmware update brings: the same descriptors, the first of
\* those that were not persistent now persistent
UpdatesOf(tbl) ==
    { t \in Tables3 :
        \E i \in DOMAIN tbl :
            /\ ~tbl[i].persistant
            /\ \A j \in 0..(i - 1) : tbl[j].persistant
            /\ t = [tbl EXCEPT ![i].persistant = TRUE] }

\* the values the application passes to par_set for a parameter with descriptor
\* d: every value around the limits of the range and of the type where the
\* table has one descriptor, the limits of the range where it has three
SetInputs(tbl, d) ==
    LET min == Member(d.type, d.min)
        max == Member(d.type, d.max)
        def == Member(d.type, d.def)
    IN IF ePAR_NUM_OF(tbl) > 1 THEN { min, max }
       ELSE IF d.type = "F32"
       THEN { min, max, def, F32_0, F32_m0, F32_3, F32_m1, F32_NaN,
              TypeMin("F32"), TypeMax("F32") }
       ELSE { min, max, def, DecBytes(min), IncBytes(max),
              TypeMin(d.type), TypeMax(d.type) }

\* the build configurations; a build with the mutex behaves like one without
\* it as long as every acquisition succeeds
Cfgs == { [auto_save |-> a, mutex_en |-> FALSE] : a \in BOOLEAN }

\* what par_if_init() of the platform returns
IfInitResults == { ePAR_OK }

----------------------------------------------------------------------------
(* The state machine *)

\* the machine the next API call works on; fail and mfail choose the NVM
\* driver call and the mutex acquisition that fail during it (0: none)
Machine(fail, mfail) ==
    [tbl |-> par_cfg_table, cfg |-> cfg, init |-> gb_is_init,
     buf |-> gpu8_par_value, off |-> gu32_par_addr_offset,
     lut |-> g_par_nvm_data_obj_addr, nvm |-> nvm,
     cnt |-> 0, fail |-> fail, acq |-> 0, mfail |-> mfail, log |-> << >>,
     mlog |-> << >>, undef |-> << >>, heap |-> heap]

\* the machine of a call during which nothing fails
M == Machine(0, 0)

\* whether a call with the driver calls log erased the signature
Rewrote(log) == \E e \in 1..Len(log) : log[e].fn = "par_nvm_corrupt_signature"

\* a call that returned r made no driver call and left live values, offsets,
\* LUT, NVM, heap and the initialized flag as they are
Untouched(r) ==
    /\ r.m.log = << >>
    /\ r.m.heap = heap
    /\ r.m.init = gb_is_init
    /\ r.m.buf = gpu8_par_value
    /\ r.m.off = gu32_par_addr_offset
    /\ r.m.lut = g_par_nvm_data_obj_addr
    /\ r.m.nvm = nvm

\* whether a read of par_nvm_load_all is among the driver calls log and failed
LoadFailed(log) ==
    \E e \in 1..Len(log) : log[e].fn = "par_nvm_load_all" /\ ~log[e].ok

\* the record of an API call that started in the current state, was given
\* p_val (if it takes a value) and returned r
Called(op, p_val, r) ==
    [op |-> op, p_val |-> p_val, status |-> r.status,
     rewrote |-> Rewrote(r.m.log), changed |-> r.m.buf # gpu8_par_value,
     was_init |-> gb_is_init, untouched |-> Untouched(r), mlog |-> r.m.mlog,
     par_num |-> -1, load_failed |-> LoadFailed(r.m.log)]

\* the record of something that is no API call
Event(op) ==
    [op |-> op, p_val |-> << >>, status |-> ePAR_OK, rewrote |-> FALSE,
     changed |-> FALSE, was_init |-> FALSE, untouched |-> TRUE, mlog |-> << >>,
     par_num |-> -1, load_failed |-> FALSE]

\* the tasks of the application that call par_set at the same time, and a
\* task that is in no call
Tasks == { "task1", "task2" }
Idle == [pc |-> "idle", par_num |-> -1, p_val |-> << >>, data |-> << >>]
TasksIdle == [t \in Tasks |-> Idle]

\* the variables of par.c and par_nvm.c after a call that left the machine m
Commit(m) ==
    /\ gb_is_init' = m.init
    /\ gpu8_par_value' = m.buf
    /\ gu32_par_addr_offset' = m.off
    /\ g_par_nvm_data_obj_addr' = m.lut
    /\ nvm' = m.nvm
    /\ heap' = m.heap
    /\ UNCHANGED << par_cfg_table, cfg, mutex, task >>

\* the API call op returned r
Returns(op, p_val, r) ==
    /\ Commit(r.m)
    /\ last' = Called(op, p_val, r)

\* static variables of a program that has just started: .bss is zeroed
ZeroOffsets(tbl) == [i \in DOMAIN tbl |-> 0]
ZeroLut(tbl) == [i \in DOMAIN tbl |-> [addr |-> 0, id |-> 0]]

\* the RAM of a program that starts with table tbl
RamReset(tbl) ==
    /\ gb_is_init' = FALSE
    /\ gpu8_par_value' = << >>
    /\ gu32_par_addr_offset' = ZeroOffsets(tbl)
    /\ g_par_nvm_data_obj_addr' = ZeroLut(tbl)
    /\ heap' = 0
    /\ mutex' = ""
    /\ task' = TasksIdle

\* the live values of all parameters
LiveValues(buf, off, tbl) == [p \in DOMAIN tbl |-> LiveValue(buf, off, tbl, p)]

\* whether the region mem starts with the signature, whether the CRC of its
\* header verifies
SignatureValid(mem) ==
    MemRead(mem, PAR_NVM_HEAD_SIGN_ADDR, PAR_NVM_SIGN_SIZE) = PAR_NVM_SIGN
StoredHead(mem) == HeadOfBytes(MemRead(mem, PAR_NVM_HEAD_ADDR, SizeofHeadObj))
HeaderCrcValid(mem) ==
    par_nvm_calc_crc(ToBytes(StoredHead(mem).obj_nb, PAR_NVM_NB_OF_OBJ_SIZE))
        = StoredHead(mem).crc

\* the header of region mem is not valid: no signature, or a CRC that does
\* not verify
HeaderInvalid(mem) == ~SignatureValid(mem) \/ ~HeaderCrcValid(mem)

\* hist.ctx is what happened before the last par_init, hist.done whether that
\* par_init has run and hist.bad_header whether it started on a region with
\* an invalid header; hist.saved are the live values par_save_all saved and
\* hist.objs the data objects an interrupted rewrite had written; hist.flip
\* is the byte of a value slot that changed and the bits of it that did
Forgotten ==
    [ctx |-> "none", done |-> FALSE, bad_header |-> FALSE, saved |-> << >>,
     objs |-> 0, flip |-> << >>]

\* a device out of the factory: blank NVM
InitWith(tables) ==
    /\ par_cfg_table \in tables
    /\ cfg \in Cfgs
    /\ gb_is_init = FALSE
    /\ gpu8_par_value = << >>
    /\ gu32_par_addr_offset = ZeroOffsets(par_cfg_table)
    /\ g_par_nvm_data_obj_addr = ZeroLut(par_cfg_table)
    /\ nvm = [a \in 0..(NvmSize - 1) |-> ErasedByte]
    /\ heap = 0
    /\ mutex = ""
    /\ task = TasksIdle
    /\ last = Event("power_on")
    /\ hist = Forgotten

\* par_init(); one that allocates needs room in the heap
ParInit ==
    /\ gb_is_init \/ heap < MaxBlocks
    /\ \E if_status \in IfInitResults :
          Returns("par_init", << >>, par_init(M, if_status))
    /\ hist' = [(IF hist.ctx \notin { "none", "saved" } /\ ~hist.done
                 THEN [hist EXCEPT !.done = TRUE]
                 ELSE Forgotten)
                   EXCEPT !.bad_header = ~gb_is_init /\ HeaderInvalid(nvm)]

\* par_deinit()
ParDeinit ==
    /\ Returns("par_deinit", << >>, par_deinit(M))
    /\ hist' = IF hist.ctx = "fault" THEN hist ELSE Forgotten

\* par_set( par_num, &val )
ParSet ==
    /\ \E par_num \in DOMAIN par_cfg_table :
          \E val \in SetInputs(par_cfg_table, par_cfg_table[par_num]) :
              Returns("par_set", val, par_set(M, par_num, val))
    /\ hist' = Forgotten

\* a call that writes through the pointer it is given returned r
Answers(op, r) == Returns(op, r.val, r)

\* par_get( par_num, &val )
ParGet ==
    /\ \E par_num \in DOMAIN par_cfg_table, undef \in UndefinedReads :
          Answers("par_get", par_get([M EXCEPT !.undef = undef], par_num))
    /\ hist' = Forgotten

\* par_is_init( &is_init )
ParIsInit ==
    /\ Answers("par_is_init", par_is_init(M))
    /\ hist' = Forgotten

\* par_get_id( par_num, &id ), par_get_type( par_num, &type ),
\* par_get_range( par_num, &range )
ParGetId ==
    /\ \E par_num \in DOMAIN par_cfg_table :
          Answers("par_get_id", par_get_id(M, par_num))
    /\ hist' = Forgotten

ParGetType ==
    /\ \E par_num \in DOMAIN par_cfg_table :
          Answers("par_get_type", par_get_type(M, par_num))
    /\ hist' = Forgotten

ParGetRange ==
    /\ \E par_num \in DOMAIN par_cfg_table :
          Answers("par_get_range", par_get_range(M, par_num))
    /\ hist' = Forgotten

\* ids the application asks par_get_num_by_id for: those of the tables and
\* others
AskedIds == { 0, 1, 2, 3, 4, 65535 }

\* par_get_num_by_id( id, &par_num ) returned f: last.p_val is the id and the
\* number written to par_num, -1 when none was
NumAnswered(id, f) ==
    Returns("par_get_num_by_id", << id, f.par_num >>, [m |-> M, status |-> f.status])

ParGetNumById ==
    /\ \E id \in AskedIds : NumAnswered(id, par_get_num_by_id(M, id))
    /\ hist' = Forgotten

\* par_set_to_default( par_num )
ParSetToDefault ==
    /\ \E par_num \in DOMAIN par_cfg_table :
          Returns("par_set_to_default", << >>, par_set_to_default(M, par_num))
    /\ hist' = Forgotten

\* par_set_all_to_default()
ParSetAllToDefault ==
    /\ Returns("par_set_all_to_default", << >>, par_set_all_to_default(M))
    /\ hist' = Forgotten

\* the API call op for parameter par_num returned r
ReturnsFor(op, par_num, r) ==
    /\ Commit(r.m)
    /\ last' = [Called(op, << >>, r) EXCEPT !.par_num = par_num]

\* par_save( par_num )
ParSave ==
    /\ \E par_num \in DOMAIN par_cfg_table :
          ReturnsFor("par_save", par_num, par_save(M, par_num))
    /\ hist' = Forgotten

\* par_save_all(); hist keeps the live values a successful call saved
ParSaveAll ==
    /\ Returns("par_save_all", << >>, par_save_all(M))
    /\ hist' = IF gb_is_init /\ last'.status = ePAR_OK
               THEN [Forgotten EXCEPT
                        !.ctx = "saved",
                        !.saved = LiveValues(gpu8_par_value, gu32_par_addr_offset,
                                             par_cfg_table)]
               ELSE Forgotten

\* par_save_clean()
ParSaveClean ==
    /\ Returns("par_save_clean", << >>, par_save_clean(M))
    /\ hist' = Forgotten

----------------------------------------------------------------------------
(* The environment *)

\* the k-th data object of region mem, whether the checksum of an object
\* verifies
StoredObj(mem, k) ==
    ObjOfBytes(MemRead(mem, PAR_NVM_FIRST_DATA_OBJ_ADDR + ObjStride * k, SizeofDataObj))
ObjValid(obj) == par_nvm_calc_obj_crc(obj) = obj.crc

\* an image par_nvm_init accepts: signature, header and every object it counts
ImageValid(mem) ==
    /\ SignatureValid(mem)
    /\ HeaderCrcValid(mem)
    /\ StoredHead(mem).obj_nb \in 1..NvmSlots
    /\ \A k \in 0..(StoredHead(mem).obj_nb - 1) : ObjValid(StoredObj(mem, k))

\* the API calls that make more than one driver call: power can be lost
\* between two of them (a driver call itself is taken to be atomic)
InterruptibleCalls ==
    { par_init(M, ePAR_OK), par_save_all(M), par_save_clean(M),
      par_set_all_to_default(M) }

\* whether the first j driver calls of log end inside a rewrite of the whole
\* region: after the signature was erased and before it was written again
InRewrite(log, j) ==
    \E e \in 1..j :
        /\ log[e].fn = "par_nvm_corrupt_signature"
        /\ \A k \in e..j : log[k].fn # "par_nvm_write_signature"

\* the data objects written among the first j driver calls of log
ObjectsWritten(log, j) == Cardinality({ k \in 1..j : log[k].fn = "par_nvm_write" })

\* power is lost right after the j-th driver call of an API call, a write or
\* an erase, and before its last: the NVM keeps what was written so far, the
\* RAM is lost
PowerLoss ==
    /\ \E r \in InterruptibleCalls :
          \E j \in 1..(Len(r.m.log) - 1) :
              /\ r.m.log[j].op # "read"
              /\ nvm' = r.m.log[j].nvm
              /\ hist' = IF InRewrite(r.m.log, j)
                         THEN [Forgotten EXCEPT !.ctx = "interrupted",
                                                !.objs = ObjectsWritten(r.m.log, j)]
                         ELSE Forgotten
    /\ RamReset(par_cfg_table)
    /\ last' = Event("power_loss")
    /\ UNCHANGED << par_cfg_table, cfg >>

\* the device restarts between two API calls: the NVM is kept, the RAM is lost
ColdRestart ==
    /\ gpu8_par_value # << >>
    /\ RamReset(par_cfg_table)
    /\ last' = Event("cold_restart")
    /\ hist' = IF hist.ctx = "saved" THEN [hist EXCEPT !.ctx = "saved_off"]
               ELSE IF hist.ctx = "fault" THEN hist
               ELSE Forgotten
    /\ UNCHANGED << par_cfg_table, cfg, nvm >>

\* a device that was shut down gets a firmware with another table
FirmwareUpdate ==
    /\ last.op = "cold_restart"
    /\ \E tbl \in UpdatesOf(par_cfg_table) : par_cfg_table' = tbl
    /\ last' = Event("firmware_update")
    /\ hist' = [Forgotten EXCEPT !.ctx = "grown"]
    /\ UNCHANGED << cfg, gb_is_init, gpu8_par_value, gu32_par_addr_offset,
                    g_par_nvm_data_obj_addr, nvm, heap, mutex, task >>

\* where the fields of a valid image start: signature, object count and CRC
\* of the header; id, size, CRC and data of every data object it counts
ImageAddrs(mem) ==
    { PAR_NVM_HEAD_SIGN_ADDR, PAR_NVM_HEAD_NB_OF_OBJ_ADDR, PAR_NVM_HEAD_CRC_ADDR }
    \cup { PAR_NVM_FIRST_DATA_OBJ_ADDR + ObjStride * k + f :
             k \in 0..(StoredHead(mem).obj_nb - 1), f \in { 0, 2, 3, 4 } }

\* a bit of a field of a valid image flips while the device is shut down
Corrupt ==
    /\ last.op = "cold_restart"
    /\ ImageValid(nvm)
    /\ \E addr \in ImageAddrs(nvm) :
          /\ nvm' = [nvm EXCEPT ![addr] = BitXor(@, 1)]
          /\ hist' = [Forgotten EXCEPT
                         !.ctx = IF addr < PAR_NVM_HEAD_NB_OF_OBJ_ADDR THEN "sig_flip"
                                 ELSE IF addr < PAR_NVM_HEAD_HASH_ADDR THEN "head_flip"
                                 ELSE "obj_flip"]
    /\ last' = Event("corrupt")
    /\ UNCHANGED << par_cfg_table, cfg, gb_is_init, gpu8_par_value,
                    gu32_par_addr_offset, g_par_nvm_data_obj_addr, heap, mutex, task >>

\* the builds of the device with a table of three descriptors: every table
\* without auto-save, two of them with it
Builds3 ==
    { b \in [tbl : Tables3, cfg : Cfgs] :
        b.cfg.auto_save => b.tbl \in { Table3(TRUE, TRUE, TRUE), Table3(FALSE, TRUE, TRUE) } }

\* the device with a table of three descriptors through its whole life; its
\* application calls par_init first
Init == InitWith(Tables3) /\ [tbl |-> par_cfg_table, cfg |-> cfg] \in Builds3

Next ==
    \/ ParInit
    \/ gb_is_init /\ ParSet
    \/ gb_is_init /\ ParSetToDefault
    \/ gb_is_init /\ ParSetAllToDefault
    \/ gb_is_init /\ ParSaveAll
    \/ gb_is_init /\ ParSaveClean
    \/ PowerLoss
    \/ ColdRestart
    \/ FirmwareUpdate
    \/ Corrupt

Spec == Init /\ [][Next]_vars

\* the device with a table of one descriptor; its application calls the API
\* in any order
InitValues == InitWith(Tables1)

NextValues ==
    \/ ParInit
    \/ ParDeinit
    \/ ParSet
    \/ ParGet
    \/ ParIsInit
    \/ ParGetId
    \/ ParGetType
    \/ ParGetRange
    \/ ParSetToDefault
    \/ ParSetAllToDefault
    \/ ParSave
    \/ ParSaveAll
    \/ ParSaveClean
    \/ ColdRestart

SpecValues == InitValues /\ [][NextValues]_vars

----------------------------------------------------------------------------
(* The device with a platform that fails *)

\* an API call makes at most MaxCalls driver calls and MaxAcquisitions mutex
\* acquisitions of which one can fail
MaxCalls == 8
MaxAcquisitions == 2

\* a table with two descriptors of the same id
TableDup ==
    [i \in 0..1 |-> Desc(1, "U8", ToBytes(1, 4), ToBytes(2, 4), ToBytes(1, 4), "RW", i = 0)]

\* a table with two persistent descriptors
Table2 == [i \in 0..1 |-> IF i = 0 THEN DescA(TRUE) ELSE DescC(TRUE)]

TablesFaults == { Table2, TableDup }

\* the builds with and without the mutex
CfgsFaults == [auto_save : BOOLEAN, mutex_en : BOOLEAN]

\* what par_if_init() of a platform that can fail returns
IfInitFaults == { ePAR_OK, ePAR_ERROR }

InitFaults ==
    /\ par_cfg_table \in TablesFaults
    /\ cfg \in CfgsFaults
    /\ gb_is_init = FALSE
    /\ gpu8_par_value = << >>
    /\ gu32_par_addr_offset = ZeroOffsets(par_cfg_table)
    /\ g_par_nvm_data_obj_addr = ZeroLut(par_cfg_table)
    /\ nvm = [a \in 0..(NvmSize - 1) |-> ErasedByte]
    /\ heap = 0
    /\ mutex = ""
    /\ task = TasksIdle
    /\ last = Event("power_on")
    /\ hist = Forgotten

\* a PAR_ASSERT of a build that has assertions failed: the program stops
Halted == last.op = "halt"

Halt ==
    /\ last' = Event("halt")
    /\ UNCHANGED << par_cfg_table, cfg, gb_is_init, gpu8_par_value,
                    gu32_par_addr_offset, g_par_nvm_data_obj_addr, nvm, heap, mutex, task, hist >>

\* par_init() of a table par_check_table_validy asserts on, in a build with
\* assertions
FaultyTableInit ==
    /\ ~gb_is_init
    /\ par_check_table_validy(par_cfg_table).asserted
    /\ Halt

\* the platform fails once in the life of the device: hist.ctx is "fault"
\* from then on
Faulted == hist.ctx = "fault"
Fails(n) == IF Faulted THEN { 0 } ELSE 0..n

\* hist after a call that returned r
FaultNoted(r) ==
    IF Faulted \/ (\E e \in 1..Len(r.m.log) : ~r.m.log[e].ok)
               \/ (\E e \in 1..Len(r.m.mlog) : r.m.mlog[e] = "refused")
    THEN [Forgotten EXCEPT !.ctx = "fault"]
    ELSE Forgotten

\* the API call op of a platform that can fail returned r
FaultyReturns(op, p_val, r) ==
    /\ Returns(op, p_val, r)
    /\ hist' = FaultNoted(r)

FaultyAnswers(op, r) == FaultyReturns(op, r.val, r)

\* the API calls during which one driver call or one acquisition may fail
FaultyInit ==
    \E fail \in Fails(MaxCalls), if_status \in IfInitFaults :
        /\ gb_is_init \/ heap < MaxBlocks
        /\ FaultyReturns("par_init", << >>, par_init(Machine(fail, 0), if_status))

FaultySet ==
    \E par_num \in DOMAIN par_cfg_table, fail \in Fails(1),
       mfail \in Fails(MaxAcquisitions) :
        \E val \in SetInputs(par_cfg_table, par_cfg_table[par_num]) :
            /\ fail = 0 \/ mfail = 0
            /\ FaultyReturns("par_set", val,
                             par_set(Machine(fail, mfail), par_num, val))

FaultyGet ==
    \E par_num \in DOMAIN par_cfg_table, mfail \in Fails(1) :
        FaultyAnswers("par_get", par_get(Machine(0, mfail), par_num))

FaultySave ==
    \E par_num \in DOMAIN par_cfg_table, fail \in Fails(1), mfail \in Fails(1) :
        /\ fail = 0 \/ mfail = 0
        /\ FaultyReturns("par_save", << >>, par_save(Machine(fail, mfail), par_num))

FaultySaveAll ==
    \E fail \in Fails(MaxCalls) :
        FaultyReturns("par_save_all", << >>, par_save_all(Machine(fail, 0)))

NextFaults ==
    \/ ~Halted /\ FaultyTableInit
    \/ ~Halted /\ FaultyInit
    \/ ~Halted /\ gb_is_init /\ FaultySet
    \/ ~Halted /\ gb_is_init /\ FaultyGet
    \/ ~Halted /\ gb_is_init /\ FaultySave
    \/ ~Halted /\ gb_is_init /\ FaultySaveAll
    \/ ~Halted /\ ParDeinit
    \/ ~Halted /\ ColdRestart

SpecFaults == InitFaults /\ [][NextFaults]_vars

----------------------------------------------------------------------------
(* The device whose application saves single parameters *)

\* tables of three descriptors with persistent and non-persistent ones
TablesSaves == { Table3(TRUE, FALSE, TRUE), Table3(FALSE, TRUE, FALSE) }

InitSaves == InitWith(TablesSaves)

NextSaves ==
    \/ ParInit
    \/ gb_is_init /\ ParSet
    \/ gb_is_init /\ ParSave
    \/ gb_is_init /\ ParSaveAll
    \/ gb_is_init /\ ParSaveClean
    \/ ParGetNumById
    \/ ColdRestart

SpecSaves == InitSaves /\ [][NextSaves]_vars

----------------------------------------------------------------------------
(* The device that starts on an image it did not write *)

\* data objects an image holds at most
MaxObjs == 3

\* a data object with id and value slot as par_nvm_write seals it
Sealed(id, data) ==
    [id |-> id, size |-> ObjSizeField, data |-> data,
     crc |-> par_nvm_calc_obj_crc([id |-> id, size |-> ObjSizeField, crc |-> 0,
                                   data |-> data])]

\* the objects of the images: both values of A (id 1), a value of B (id 2) and
\* of C (id 3) that is not the default, and an object of an id (9) that the
\* table does not have
ImageObjs ==
    { Sealed(1, << 1, 0, 0, 0 >>), Sealed(1, << 2, 0, 0, 0 >>),
      Sealed(2, << 255, 255, 0, 0 >>), Sealed(3, << 0, 0, 1, 0 >>),
      Sealed(9, << 7, 0, 0, 0 >>) }

\* the region with signature, header and the data objects objs, erased
\* elsewhere
ImageOf(objs) ==
    LET head == HeadBytes([sign |-> PAR_NVM_SIGN, obj_nb |-> Len(objs),
                           crc |-> par_nvm_calc_crc(ToBytes(Len(objs),
                                                            PAR_NVM_NB_OF_OBJ_SIZE))])
    IN [a \in 0..(NvmSize - 1) |->
           IF a < SizeofHeadObj THEN head[a + 1]
           ELSE IF a >= PAR_NVM_FIRST_DATA_OBJ_ADDR
                   /\ a < PAR_NVM_FIRST_DATA_OBJ_ADDR + ObjStride * Len(objs)
                THEN ObjBytes(objs[((a - PAR_NVM_FIRST_DATA_OBJ_ADDR) \div ObjStride) + 1])
                         [((a - PAR_NVM_FIRST_DATA_OBJ_ADDR) % ObjStride) + 1]
                ELSE ErasedByte]

\* the images: every sequence of one to MaxObjs of the objects
Images == { ImageOf(objs) : objs \in UNION { [1..n -> ImageObjs] : n \in 1..MaxObjs } }

\* the table of the firmware: A and C persistent, B not (any more)
TableImages == Table3(TRUE, FALSE, TRUE)

InitImages ==
    /\ par_cfg_table = TableImages
    /\ cfg \in Cfgs
    /\ gb_is_init = FALSE
    /\ gpu8_par_value = << >>
    /\ gu32_par_addr_offset = ZeroOffsets(par_cfg_table)
    /\ g_par_nvm_data_obj_addr = ZeroLut(par_cfg_table)
    /\ nvm \in Images
    /\ heap = 0
    /\ mutex = ""
    /\ task = TasksIdle
    /\ last = Event("power_on")
    /\ hist = Forgotten

NextImages ==
    \/ ParInit
    \/ gb_is_init /\ ParSaveAll
    \/ ColdRestart

SpecImages == InitImages /\ [][NextImages]_vars

----------------------------------------------------------------------------
(* The device with a table whose ranges may be ill defined *)

\* three values of every type, in rising order of the type: they cross a
\* byte or the sign
RangeValues(type) ==
    CASE type = "U8" -> << << 0 >>, << 1 >>, << 255 >> >>
      [] type = "I8" -> << << 128 >>, << 255 >>, << 1 >> >>
      [] type = "U16" -> << << 255, 0 >>, << 0, 1 >>, << 0, 128 >> >>
      [] type = "I16" -> << << 0, 128 >>, << 255, 255 >>, << 0, 1 >> >>
      [] type = "U32" -> << << 255, 255, 0, 0 >>, << 0, 0, 1, 0 >>, << 0, 0, 0, 128 >> >>
      [] type = "I32" -> << << 0, 0, 0, 128 >>, << 255, 255, 255, 255 >>, << 0, 0, 1, 0 >> >>
      [] type = "F32" -> << F32_m1, F32_0, F32_1h >>

\* the tables of one descriptor with min, max and default among the three
\* values of its type, in every order
TablesRanges ==
    { [i \in 0..0 |-> Desc(0, type, RangeValues(type)[lo], RangeValues(type)[hi],
                           RangeValues(type)[def], "RW", FALSE)] :
        type \in ParTypes, lo \in 1..3, hi \in 1..3, def \in 1..3 }

InitRanges == InitWith(TablesRanges)

\* PAR_ASSERT comes from par_cfg.h of the project: it stops the program
\* (FaultyTableInit) or does nothing (ParInit)
NextRanges ==
    \/ ~Halted /\ FaultyTableInit
    \/ ~Halted /\ ParInit
    \/ ~Halted /\ ParDeinit
    \/ ~Halted /\ gb_is_init /\ ParSet
    \/ ~Halted /\ ColdRestart

SpecRanges == InitRanges /\ [][NextRanges]_vars

----------------------------------------------------------------------------
(* The device with parameters of every type in every order *)

\* three volatile parameters with ids 1, 2, 3, of any types
TablesLayout ==
    { [i \in 0..2 |-> Desc(i + 1, types[i + 1], RangeValues(types[i + 1])[1],
                           RangeValues(types[i + 1])[3],
                           RangeValues(types[i + 1])[2], "RW", FALSE)] :
        types \in ParTypes \X ParTypes \X ParTypes }

InitLayout == InitWith(TablesLayout)

NextLayout ==
    \/ ParInit
    \/ ParDeinit
    \/ gb_is_init /\ ParSet
    \/ ColdRestart

SpecLayout == InitLayout /\ [][NextLayout]_vars

----------------------------------------------------------------------------
(* The device whose tasks call par_set at the same time *)

\* a build with PAR_CFG_MUTEX_EN and PAR_CFG_AUTO_SAVE, started on an erased
\* NVM; every acquisition and every driver call succeeds
InitTasks ==
    /\ par_cfg_table = Table2
    /\ cfg = [auto_save |-> TRUE, mutex_en |-> TRUE]
    /\ gb_is_init = FALSE
    /\ gpu8_par_value = << >>
    /\ gu32_par_addr_offset = ZeroOffsets(par_cfg_table)
    /\ g_par_nvm_data_obj_addr = ZeroLut(par_cfg_table)
    /\ nvm = [a \in 0..(NvmSize - 1) |-> ErasedByte]
    /\ heap = 0
    /\ mutex = ""
    /\ task = TasksIdle
    /\ last = Event("power_on")
    /\ hist = Forgotten

\* what a step of a task leaves alone besides the variables it names
TaskFrame ==
    UNCHANGED << par_cfg_table, cfg, gb_is_init, gu32_par_addr_offset,
                 g_par_nvm_data_obj_addr, heap, hist >>

\* task t goes on to pc
Goes(t, pc) == task' = [task EXCEPT ![t].pc = pc]

\* task t calls par_set( par_num, &p_val ): initialized, par_num in the table
TaskCalls(t) ==
    /\ task[t].pc = "idle"
    /\ \E par_num \in DOMAIN par_cfg_table :
          \E p_val \in SetInputs(par_cfg_table, par_cfg_table[par_num]) :
              task' = [task EXCEPT ![t] = [pc |-> "set_acquire", par_num |-> par_num,
                                           p_val |-> p_val, data |-> << >>]]
    /\ TaskFrame
    /\ UNCHANGED << gpu8_par_value, nvm, mutex, last >>

\* par_if_aquire_mutex() of par_set, or of the par_get of par_nvm_write,
\* returns to task t once the mutex is free
TaskAcquires(t) ==
    /\ task[t].pc \in { "set_acquire", "get_acquire" }
    /\ mutex = ""
    /\ mutex' = t
    /\ Goes(t, IF task[t].pc = "set_acquire" THEN "store" ELSE "read")
    /\ TaskFrame
    /\ UNCHANGED << gpu8_par_value, nvm, last >>

\* the typed set of par_set: the limited value goes to the live buffer
TaskStores(t) ==
    /\ task[t].pc = "store"
    /\ gpu8_par_value' =
           SetTyped(M, task[t].par_num, par_cfg_table[task[t].par_num].type,
                    Member(par_cfg_table[task[t].par_num].type, task[t].p_val)).m.buf
    /\ Goes(t, "set_release")
    /\ TaskFrame
    /\ UNCHANGED << nvm, mutex, last >>

\* par_if_release_mutex() of par_set, after which it calls par_save, or of
\* the par_get of par_nvm_write
TaskReleases(t) ==
    /\ task[t].pc \in { "set_release", "get_release" }
    /\ mutex' = ""
    /\ Goes(t, IF task[t].pc = "set_release" THEN "get_acquire" ELSE "write")
    /\ TaskFrame
    /\ UNCHANGED << gpu8_par_value, nvm, last >>

\* the par_get of par_nvm_write copies the live value to obj_data.data
TaskReads(t) ==
    /\ task[t].pc = "read"
    /\ task' = [task EXCEPT
                   ![t].pc = "get_release",
                   ![t].data = LiveValue(gpu8_par_value, gu32_par_addr_offset,
                                         par_cfg_table, task[t].par_num)]
    /\ TaskFrame
    /\ UNCHANGED << gpu8_par_value, nvm, mutex, last >>

\* par_nvm_write seals obj_data and writes it; par_set returns
TaskWrites(t) ==
    /\ task[t].pc = "write"
    /\ nvm' = WriteValue([m |-> M, val |-> task[t].data],
                         par_cfg_table[task[t].par_num].id % 65536).m.nvm
    /\ Goes(t, "returned")
    /\ last' = [Event("par_set") EXCEPT !.was_init = TRUE,
                                        !.par_num = task[t].par_num]
    /\ TaskFrame
    /\ UNCHANGED << gpu8_par_value, mutex >>

\* every call has returned: the tasks may call again
TasksRest ==
    /\ \A t \in Tasks : task[t].pc = "returned"
    /\ task' = TasksIdle
    /\ TaskFrame
    /\ UNCHANGED << gpu8_par_value, nvm, mutex, last >>

NextTasks ==
    \/ ~gb_is_init /\ ParInit
    \/ gb_is_init /\ \E t \in Tasks : TaskCalls(t)
    \/ gb_is_init /\ \E t \in Tasks : TaskAcquires(t)
    \/ gb_is_init /\ \E t \in Tasks : TaskStores(t)
    \/ gb_is_init /\ \E t \in Tasks : TaskReleases(t)
    \/ gb_is_init /\ \E t \in Tasks : TaskReads(t)
    \/ gb_is_init /\ \E t \in Tasks : TaskWrites(t)
    \/ gb_is_init /\ TasksRest

SpecTasks == InitTasks /\ [][NextTasks]_vars

----------------------------------------------------------------------------
(* The device whose NVM loses a byte of a stored value *)

\* offsetof( par_nvm_data_obj_t, data ): after id, size and crc
ValueSlotAt == 4

\* byte i of the value slot of the k-th object of a valid image becomes any
\* other byte while the device is shut down
ValueChanges ==
    /\ last.op = "cold_restart"
    /\ ImageValid(nvm)
    /\ \E k \in 0..(StoredHead(nvm).obj_nb - 1), i \in 0..3, b \in 0..255 :
          LET addr == PAR_NVM_FIRST_DATA_OBJ_ADDR + ObjStride * k + ValueSlotAt + i
          IN /\ b # nvm[addr]
             /\ nvm' = [nvm EXCEPT ![addr] = b]
             /\ last' = [Event("value_changed") EXCEPT
                            !.par_num = k, !.p_val = << i, BitXor(nvm[addr], b) >>]
             /\ hist' = [Forgotten EXCEPT !.ctx = "value_changed",
                                          !.flip = << i, BitXor(nvm[addr], b) >>]
    /\ UNCHANGED << par_cfg_table, cfg, gb_is_init, gpu8_par_value,
                    gu32_par_addr_offset, g_par_nvm_data_obj_addr, heap, mutex, task >>

\* two persistent parameters, no auto-save
InitChanges == InitWith({ Table2 }) /\ ~cfg.auto_save

\* the image that loses a byte is one par_save_all wrote before the shutdown
NextChanges ==
    \/ ParInit
    \/ gb_is_init /\ ParSet
    \/ gb_is_init /\ ParSaveAll
    \/ ColdRestart
    \/ hist.ctx = "saved_off" /\ ValueChanges

SpecChanges == InitChanges /\ [][NextChanges]_vars

----------------------------------------------------------------------------
(* What the properties speak of *)

Persistent(p) == par_cfg_table[p].persistant
NumPersistent == Cardinality({ p \in DOMAIN par_cfg_table : Persistent(p) })
Default(p) == Member(par_cfg_table[p].type, par_cfg_table[p].def)
Live(p) == LiveValue(gpu8_par_value, gu32_par_addr_offset, par_cfg_table, p)

\* the objects the header of region mem counts
CountedObjs(mem) == { StoredObj(mem, k) : k \in 0..(StoredHead(mem).obj_nb - 1) }

\* the value an object holds for parameter p
ValueIn(obj, p) == SubSeq(obj.data, 1, par_get_type_size(par_cfg_table[p].type))

\* region mem is whole: the signature, a header whose CRC verifies and that
\* counts the persistent descriptors, an object with a good checksum for
\* every persistent parameter
NvmWhole(mem) ==
    /\ SignatureValid(mem)
    /\ HeaderCrcValid(mem)
    /\ StoredHead(mem).obj_nb = NumPersistent
    /\ \A p \in DOMAIN par_cfg_table :
           Persistent(p) =>
               \E obj \in CountedObjs(mem) :
                   obj.id = par_cfg_table[p].id /\ ObjValid(obj)

----------------------------------------------------------------------------
(* C1 *)

\* the driver calls of one par_nvm_write_all, in order: the erasure of the
\* signature, one write per persistent parameter, the header, the signature;
\* the region does not hold the signature after any of them but the last
WriteAllOrdered(log) ==
    /\ Len(log) = NumPersistent + 3
    /\ log[1].fn = "par_nvm_corrupt_signature"
    /\ \A j \in 2..(Len(log) - 2) : log[j].fn = "par_nvm_write"
    /\ log[Len(log) - 1].fn = "par_nvm_write_header"
    /\ log[Len(log)].fn = "par_nvm_write_signature"
    /\ \A j \in 1..(Len(log) - 1) : ~SignatureValid(log[j].nvm)
    /\ SignatureValid(log[Len(log)].nvm)

\* C1: whenever par_nvm_write_all runs, it erases the signature before it
\* writes the first data object and writes the signature only after every
\* data object and the header; the region does not hold the signature at any
\* point in between, and a power loss at such a point leaves it without one
C1_SignatureInvalidDuringWriteAll ==
    /\ gpu8_par_value # << >> => WriteAllOrdered(par_nvm_write_all(M).m.log)
    /\ hist.ctx = "interrupted" /\ last.op = "power_loss" => ~SignatureValid(nvm)

\* power was lost during a rewrite after the first data object was written
C1_Witness ==
    /\ last.op = "power_loss"
    /\ hist.ctx = "interrupted"
    /\ hist.objs > 0
    /\ ~SignatureValid(nvm)

----------------------------------------------------------------------------
(* C2 *)

\* par_init has run after a rewrite of the region was interrupted
RestartedAfterInterrupt == hist.ctx = "interrupted" /\ hist.done /\ last.op = "par_init"

\* C2, as stated: after a rewrite of the region was interrupted at any step,
\* the next par_init leaves the region whole, for every descriptor table
C2_AsStated == RestartedAfterInterrupt => NvmWhole(nvm)

\* C2, amended: after a rewrite of the region was interrupted at any step,
\* the next par_init of a table with at least one persistent descriptor
\* rewrites the region and leaves it whole
C2_InterruptedRewriteRepaired ==
    RestartedAfterInterrupt /\ NumPersistent > 0 => last.rewrote /\ NvmWhole(nvm)

\* par_init has repaired a rewrite that was interrupted after its first object
C2_Witness ==
    /\ RestartedAfterInterrupt
    /\ NumPersistent > 0
    /\ hist.objs > 0
    /\ NvmWhole(nvm)

----------------------------------------------------------------------------
(* C3 *)

\* C3: par_init after a successful par_save_all and a restart gives every
\* persistent parameter the live value it had when par_save_all ran and
\* every other parameter its default, for every descriptor table
C3_SavedValuesRestored ==
    hist.ctx = "saved_off" /\ hist.done /\ last.op = "par_init" =>
        \A p \in DOMAIN par_cfg_table :
            Live(p) = IF Persistent(p) THEN hist.saved[p] ELSE Default(p)

----------------------------------------------------------------------------
(* C4 *)

Min(p) == Member(par_cfg_table[p].type, par_cfg_table[p].min)
Max(p) == Member(par_cfg_table[p].type, par_cfg_table[p].max)

\* what par_get gives for parameter p right after par_set( p, &v )
ReadBack(p, v) == par_get(par_set(M, p, v).m, p).val

\* g is what the claim expects to be read back after v was set
Clamped(type, min, max, v, g) ==
    /\ Less(type, max, v) => g = max
    /\ Less(type, v, min) => g = min
    /\ ~Less(type, max, v) /\ ~Less(type, v, min) => g = v
    /\ LessEq(type, min, g) /\ LessEq(type, g, max)

\* C4: in the initialized state par_get right after par_set( v ) gives v
\* limited to [min, max], and never a value outside [min, max], for every
\* parameter and every value of its type
C4_GetAfterSetIsClamped ==
    gb_is_init =>
        \A p \in DOMAIN par_cfg_table :
            \A v \in SetInputs(par_cfg_table, par_cfg_table[p]) :
                Clamped(par_cfg_table[p].type, Min(p), Max(p), v, ReadBack(p, v))

----------------------------------------------------------------------------
(* C5 *)

\* C5: when par_init finds a data object of a valid image with a bad
\* checksum, every persistent parameter has its default as live value
\* afterwards and the region holds that default for it
C5_CorruptObjectResetsAllToDefault ==
    hist.ctx = "obj_flip" /\ hist.done /\ last.op = "par_init" /\ last.rewrote =>
        \A p \in DOMAIN par_cfg_table :
            Persistent(p) =>
                /\ Live(p) = Default(p)
                /\ \E obj \in CountedObjs(nvm) :
                       obj.id = par_cfg_table[p].id /\ ValueIn(obj, p) = Default(p)

----------------------------------------------------------------------------
(* C6 *)

\* how many persistent parameters precede parameter p in the table
Rank(p) == Cardinality({ q \in DOMAIN par_cfg_table : q < p /\ Persistent(q) })

\* the state after a full reset: the LUT lists the persistent parameters in
\* table order at consecutive addresses, the region holds at each of them
\* the default of the parameter under a good checksum, the header counts the
\* persistent parameters under a good CRC and the signature, and every live
\* value is the default
ResetDone ==
    /\ \A p \in DOMAIN par_cfg_table :
           Persistent(p) =>
               /\ g_par_nvm_data_obj_addr[Rank(p)] =
                      [addr |-> PAR_NVM_FIRST_DATA_OBJ_ADDR + ObjStride * Rank(p),
                       id |-> par_cfg_table[p].id]
               /\ StoredObj(nvm, Rank(p)).id = par_cfg_table[p].id
               /\ ValueIn(StoredObj(nvm, Rank(p)), p) = Default(p)
               /\ ObjValid(StoredObj(nvm, Rank(p)))
    /\ StoredHead(nvm).obj_nb = NumPersistent
    /\ HeaderCrcValid(nvm)
    /\ SignatureValid(nvm)
    /\ \A p \in DOMAIN par_cfg_table : Live(p) = Default(p)

\* C6: a par_init that finds the header invalid (no signature, or the
\* signature and a header CRC that does not verify) resets the region: the
\* LUT is rebuilt from the table, every persistent parameter is stored with
\* its default under a good checksum, the header counts them, and every live
\* value is its default
C6_InvalidHeaderResets ==
    last.op = "par_init" /\ gb_is_init /\ hist.bad_header /\ NumPersistent > 0 =>
        ResetDone

\* par_init has reset a region whose signature was good and whose header CRC
\* did not verify
C6_Witness ==
    /\ last.op = "par_init"
    /\ hist.ctx = "head_flip"
    /\ hist.done
    /\ hist.bad_header
    /\ last.rewrote
    /\ ResetDone

----------------------------------------------------------------------------
(* C7 *)

\* the persistent parameters region mem holds no object for
Lacking(mem) ==
    { p \in DOMAIN par_cfg_table :
        Persistent(p) /\ \A obj \in CountedObjs(mem) : obj.id # par_cfg_table[p].id }

\* where the objects of region mem lie
ObjAddrs(mem) ==
    { PAR_NVM_FIRST_DATA_OBJ_ADDR + ObjStride * k : k \in 0..(StoredHead(mem).obj_nb - 1) }

ObjAt(mem, addr) == ObjOfBytes(MemRead(mem, addr, SizeofDataObj))

\* C7: a par_init that finds a valid image without an object for a
\* descriptor that is now persistent keeps the stored value of every
\* parameter of the image, gives the new parameter a LUT address of its own,
\* writes its default there and rewrites the object count of the header
C7_GrownTableAppended ==
    [][(/\ ~gb_is_init /\ gb_is_init'
        /\ hist.ctx = "grown" /\ ~hist.done
        /\ ImageValid(nvm)
        /\ Lacking(nvm) # { })
           => /\ \A p \in DOMAIN par_cfg_table :
                     \A obj \in CountedObjs(nvm) :
                         Persistent(p) /\ obj.id = par_cfg_table[p].id =>
                             Live(p)' = ValueIn(obj, p)
              /\ \A p \in Lacking(nvm) :
                     /\ LutAddr(g_par_nvm_data_obj_addr', par_cfg_table[p].id, 0)
                            \notin ObjAddrs(nvm)
                     /\ ObjAt(nvm', LutAddr(g_par_nvm_data_obj_addr',
                                            par_cfg_table[p].id, 0)).id
                            = par_cfg_table[p].id
                     /\ ValueIn(ObjAt(nvm', LutAddr(g_par_nvm_data_obj_addr',
                                                    par_cfg_table[p].id, 0)), p)
                            = Default(p)
              /\ StoredHead(nvm').obj_nb = NumPersistent]_vars

----------------------------------------------------------------------------
(* C8 *)

\* C8: a par_init whose NVM phase rewrote the region returns a status with
\* one of the bits that report the recovery
C8_RecoveryReported ==
    last.op = "par_init" /\ last.rewrote =>
        \/ HasBit(last.status, ePAR_WARN_NVM_REWRITTEN)
        \/ HasBit(last.status, ePAR_WARN_SET_TO_DEF)
        \/ HasBit(last.status, ePAR_ERROR_CRC)

----------------------------------------------------------------------------
(* C9 *)

IntTyped(p) == par_cfg_table[p].type \in IntTypes

\* the live value of parameter p right after par_set( p, &v )
StoredAfterSet(p, v) ==
    LiveValue(par_set(M, p, v).m.buf, gu32_par_addr_offset, par_cfg_table, p)

\* C9, as stated: par_set of min - 1 stores min and par_set of max + 1
\* stores max, the argument taken at the width of the type, also where min
\* or max is the limit of the type
C9_AsStated ==
    gb_is_init =>
        \A p \in DOMAIN par_cfg_table :
            IntTyped(p) =>
                /\ StoredAfterSet(p, DecBytes(Min(p))) = Min(p)
                /\ StoredAfterSet(p, IncBytes(Max(p))) = Max(p)

\* C9, amended: par_set of min - 1 stores min where min is above the least
\* value of the type, and par_set of max + 1 stores max where max is below
\* the greatest value of the type
C9_OneBeyondLimitIsClamped ==
    gb_is_init =>
        \A p \in DOMAIN par_cfg_table :
            IntTyped(p) =>
                /\ Min(p) # TypeMin(par_cfg_table[p].type) =>
                       StoredAfterSet(p, DecBytes(Min(p))) = Min(p)
                /\ Max(p) # TypeMax(par_cfg_table[p].type) =>
                       StoredAfterSet(p, IncBytes(Max(p))) = Max(p)

\* par_set was given min - 1 and stored min
C9_Witness ==
    /\ gb_is_init
    /\ last.op = "par_set"
    /\ \E p \in DOMAIN par_cfg_table :
           /\ IntTyped(p)
           /\ Min(p) # TypeMin(par_cfg_table[p].type)
           /\ last.p_val = DecBytes(Min(p))
           /\ Live(p) = Min(p)

----------------------------------------------------------------------------
(* C10 *)

\* C10: in the initialized state, after par_set_all_to_default has returned,
\* par_get gives for every parameter its default
C10_AllDefaultAfterSetAllToDefault ==
    gb_is_init /\ last.op = "par_set_all_to_default" =>
        \A p \in DOMAIN par_cfg_table :
            /\ par_get(M, p).status = ePAR_OK
            /\ par_get(M, p).val = Default(p)

\* par_set_all_to_default has changed a live value
C10_Witness ==
    /\ gb_is_init
    /\ last.op = "par_set_all_to_default"
    /\ last.changed
    /\ \A p \in DOMAIN par_cfg_table : Live(p) = Default(p)

----------------------------------------------------------------------------
(* C11 *)

\* a call that returned r was refused for the module not being initialized
Refused(r) == r.status = ePAR_ERROR_INIT /\ Untouched(r)

\* a call that writes through a pointer was refused and wrote nothing
RefusedUnread(r) == Refused(r) /\ r.val = << >>

\* C11: outside the Initialized state every accessor fails with
\* ePAR_ERROR_INIT and neither reads nor changes live values, LUT or NVM
C11_AccessorsRefusedOutsideInitialized ==
    ~gb_is_init =>
        /\ Refused(par_set_all_to_default(M))
        /\ Refused(par_save_all(M))
        /\ Refused(par_save_clean(M))
        /\ \A id \in { par_cfg_table[p].id : p \in DOMAIN par_cfg_table } :
               par_get_num_by_id(M, id).status = ePAR_ERROR_INIT
        /\ \A p \in DOMAIN par_cfg_table :
              /\ \A val \in SetInputs(par_cfg_table, par_cfg_table[p]) :
                     Refused(par_set(M, p, val))
              /\ Refused(par_set_to_default(M, p))
              /\ Refused(par_save(M, p))
              /\ RefusedUnread(par_get_id(M, p))
              /\ RefusedUnread(par_get_type(M, p))
              /\ RefusedUnread(par_get_range(M, p))
              /\ \A undef \in UndefinedReads :
                     RefusedUnread(par_get([M EXCEPT !.undef = undef], p))

----------------------------------------------------------------------------
(* C12 *)

\* C12: a par_init of the initialized module returns ePAR_ERROR_INIT and
\* leaves live values, offsets, LUT, NVM and the initialized flag as they were
C12_SecondInitRefused ==
    last.op = "par_init" /\ last.was_init =>
        /\ last.status = ePAR_ERROR_INIT
        /\ last.untouched
        /\ gb_is_init

\* a second par_init has returned, after values were loaded from NVM or not
C12_Witness ==
    /\ last.op = "par_init"
    /\ last.was_init
    /\ last.status = ePAR_ERROR_INIT
    /\ last.untouched
    /\ \E p \in DOMAIN par_cfg_table : Live(p) # Default(p)

----------------------------------------------------------------------------
(* C13 *)

\* C13: with a table in which two descriptors share an id the module is never
\* initialized, and every par_init that returns reports ePAR_ERROR
C13_DuplicateIdFailsInit ==
    DuplicateId(par_cfg_table) =>
        /\ ~gb_is_init
        /\ last.op = "par_init" => HasBit(last.status, ePAR_ERROR)

\* par_init has returned for a table with a duplicate id
C13_Witness ==
    /\ DuplicateId(par_cfg_table)
    /\ last.op = "par_init"
    /\ HasBit(last.status, ePAR_ERROR)
    /\ ~gb_is_init
    /\ gpu8_par_value # << >>

----------------------------------------------------------------------------
(* C14 *)

\* C14: par_set on a parameter whose access is read-only fails and leaves its
\* live value as it is
C14_ReadOnlyNotSet ==
    gb_is_init =>
        \A p \in DOMAIN par_cfg_table :
            par_cfg_table[p].access = "RO" =>
                \A val \in SetInputs(par_cfg_table, par_cfg_table[p]) :
                    /\ par_set(M, p, val).status # ePAR_OK
                    /\ par_set(M, p, val).m.buf = gpu8_par_value

----------------------------------------------------------------------------
(* C15 *)

\* the call that returned r got the mutex it asked for first, if it asked
OwnAcquired(r) == r.m.mlog = << >> \/ r.m.mlog[1] = "acquired"

\* the last driver call of the par_set of parameter p that returned r wrote
\* the data object of p, with the value p has now, where the LUT has p
AutoSaved(r, p) ==
    /\ r.m.log # << >>
    /\ r.m.log[Len(r.m.log)].fn = "par_nvm_write"
    /\ \E i \in DOMAIN r.m.lut :
          /\ r.m.lut[i].id = par_cfg_table[p].id % 65536
          /\ r.m.lut[i].addr = r.m.log[Len(r.m.log)].addr
    /\ ObjOfBytes(r.m.log[Len(r.m.log)].arg).id = par_cfg_table[p].id % 65536
    /\ ValueIn(ObjOfBytes(r.m.log[Len(r.m.log)].arg), p)
           = LiveValue(r.m.buf, r.m.off, r.m.tbl, p)
    /\ r.m.log[Len(r.m.log)].ok => r.status = ePAR_OK

\* C15: with auto-save every par_set that stores a value of a persistent
\* parameter writes, before it returns, the data object with the new value
\* at the LUT address of the parameter, and returns ePAR_OK if the write
\* succeeds
C15_SetIsSavedAtOnce ==
    gb_is_init /\ cfg.auto_save =>
        \A p \in DOMAIN par_cfg_table, mfail \in 0..MaxAcquisitions :
            Persistent(p) =>
                \A val \in SetInputs(par_cfg_table, par_cfg_table[p]) :
                    OwnAcquired(par_set(Machine(0, mfail), p, val))
                        => AutoSaved(par_set(Machine(0, mfail), p, val), p)

----------------------------------------------------------------------------
(* C16 *)

\* a driver call of the API call that returned r failed
Failed(r) == \E e \in 1..Len(r.m.log) : ~r.m.log[e].ok

\* a driver call of log that failed was made again later in log
Reissued(log) ==
    \E e \in 1..Len(log), k \in 1..Len(log) :
        /\ e < k
        /\ ~log[e].ok
        /\ log[k].op = log[e].op
        /\ log[k].addr = log[e].addr
        /\ log[k].arg = log[e].arg

\* if a driver call of the API call that returned r failed, the status has
\* ePAR_ERROR_NVM and the driver call was not made again
Surfaced(r) ==
    Failed(r) => HasBit(r.status, ePAR_ERROR_NVM) /\ ~Reissued(r.m.log)

\* C16: a driver call that fails during par_init, par_save or par_save_all
\* puts ePAR_ERROR_NVM in the status returned and is not made again
C16_NvmFailureSurfaced ==
    \A fail \in 1..MaxCalls :
        /\ ~gb_is_init => Surfaced(par_init(Machine(fail, 0), ePAR_OK))
        /\ gb_is_init =>
              /\ Surfaced(par_save_all(Machine(fail, 0)))
              /\ \A p \in DOMAIN par_cfg_table : Surfaced(par_save(Machine(fail, 0), p))

----------------------------------------------------------------------------
(* C17 *)

\* in the calls mlog of the mutex interface every acquisition that succeeded
\* is followed at once by one release, and nothing else is released
Balanced(mlog) ==
    \A e \in 1..Len(mlog) :
        /\ mlog[e] = "acquired" => e < Len(mlog) /\ mlog[e + 1] = "released"
        /\ mlog[e] = "released" => e > 1 /\ mlog[e - 1] = "acquired"

\* C17: with the mutex enabled, a par_get or par_set that is refused the
\* mutex returns ePAR_ERROR, reads and changes nothing and makes no driver
\* call; one that gets it releases it once, and every acquisition of the call
\* is released once before the call returns
C17_MutexRefusedOrReleased ==
    cfg.mutex_en /\ last.was_init /\ last.op \in { "par_get", "par_set" } =>
        /\ last.mlog # << >>
        /\ last.mlog[1] = "refused" =>
              /\ last.status = ePAR_ERROR
              /\ last.untouched
              /\ last.mlog = << "refused" >>
              /\ last.op = "par_get" => last.p_val = << >>
        /\ last.mlog[1] = "acquired" => Balanced(last.mlog)

\* a par_set was refused the mutex
C17_Witness ==
    /\ cfg.mutex_en
    /\ last.op = "par_set"
    /\ last.mlog = << "refused" >>
    /\ last.status = ePAR_ERROR
    /\ last.untouched
    /\ gb_is_init

----------------------------------------------------------------------------
(* C18 *)

\* C18: with a table of no persistent parameter par_nvm_init returns the
\* warning ePAR_WARN_NO_PERSISTANT, which par_init passes on, and makes no
\* driver call
C18_NoPersistentWarned ==
    NumPersistent = 0 =>
        /\ HasBit(par_nvm_init(M).status, ePAR_WARN_NO_PERSISTANT)
        /\ par_nvm_init(M).m.log = << >>
        /\ last.op = "par_init" /\ ~last.was_init
              => HasBit(last.status, ePAR_WARN_NO_PERSISTANT)

----------------------------------------------------------------------------
(* C19 *)

\* the driver calls log have a sync after the last write
Synced(log) ==
    \E e \in 1..Len(log) :
        /\ log[e].op = "sync"
        /\ \A k \in (e + 1)..Len(log) : log[k].op # "write"

\* the driver calls log have one sync, and it is the last call
SyncedOnce(log) ==
    /\ Cardinality({ e \in 1..Len(log) : log[e].op = "sync" }) = 1
    /\ log[Len(log)].op = "sync"

\* C19: par_save and par_save_all sync the NVM region after their last
\* write; par_nvm_write_all makes one sync, after header and signature
C19_SavesAreSynced ==
    gb_is_init =>
        /\ Synced(par_save_all(M).m.log)
        /\ SyncedOnce(par_nvm_write_all(M).m.log)
        /\ \A p \in DOMAIN par_cfg_table :
               Persistent(p) => Synced(par_save(M, p).m.log)

----------------------------------------------------------------------------
(* C20 *)

\* C20: a par_deinit of the module that is not initialized returns
\* ePAR_ERROR_INIT and changes nothing; a par_deinit of the initialized
\* module clears the flag: par_is_init gives false and the next par_init is
\* not refused with ePAR_ERROR_INIT
C20_DeinitOnlyWhenInitialized ==
    last.op = "par_deinit" =>
        /\ ~last.was_init => last.status = ePAR_ERROR_INIT /\ last.untouched
        /\ last.was_init =>
              /\ last.status # ePAR_ERROR_INIT
              /\ ~gb_is_init
              /\ par_is_init(M).status = ePAR_OK
              /\ par_is_init(M).val = FALSE
              /\ \A if_status \in IfInitResults :
                     ~HasBit(par_init(M, if_status).status, ePAR_ERROR_INIT)

\* the initialized module, with a value set, was de-initialized
C20_Witness ==
    /\ last.op = "par_deinit"
    /\ last.was_init
    /\ ~gb_is_init
    /\ \E p \in DOMAIN par_cfg_table : Live(p) # Default(p)

----------------------------------------------------------------------------
(* C21 *)

\* C21: the live buffer is allocated once at init and released at deinit:
\* at most one block is allocated and not freed, and none after a par_deinit
C21_OneLiveBuffer ==
    /\ heap <= 1
    /\ last.op = "par_deinit" => heap = 0

----------------------------------------------------------------------------
(* C22 *)

\* C22: a par_save or par_nvm_write of a parameter that is not persistent
\* returns an error, makes no driver call and leaves NVM and LUT as they are
C22_VolatileNotSaved ==
    /\ last.op = "par_save" /\ last.was_init /\ ~Persistent(last.par_num) =>
            last.status = ePAR_ERROR /\ last.untouched
    /\ \A p \in DOMAIN par_cfg_table :
           ~Persistent(p) =>
               /\ par_nvm_write(M, p).status = ePAR_ERROR
               /\ Untouched(par_nvm_write(M, p))

\* a parameter that is not persistent was saved next to stored ones
C22_Witness ==
    /\ last.op = "par_save"
    /\ last.was_init
    /\ ~Persistent(last.par_num)
    /\ NvmWhole(nvm)
    /\ \E p \in DOMAIN par_cfg_table : Live(p) # Default(p)

----------------------------------------------------------------------------
(* C23 *)

\* the parameters of the table that have the id
WithId(id) == { p \in DOMAIN par_cfg_table : par_cfg_table[p].id = id }

\* C23: in the initialized module with a table of distinct ids,
\* par_get_num_by_id of the id par_get_id gives for parameter n returns
\* ePAR_OK and n; for an id no descriptor has it returns an error and writes
\* no parameter number
C23_IdRoundTrip ==
    /\ gb_is_init /\ ~DuplicateId(par_cfg_table) =>
           \A n \in DOMAIN par_cfg_table :
               /\ par_get_id(M, n).status = ePAR_OK
               /\ par_get_num_by_id(M, par_get_id(M, n).val)
                      = [status |-> ePAR_OK, par_num |-> n]
    /\ last.op = "par_get_num_by_id" /\ last.was_init =>
           IF WithId(last.p_val[1]) = {}
           THEN last.status = ePAR_ERROR /\ last.p_val[2] = -1 /\ last.untouched
           ELSE last.status = ePAR_OK /\ WithId(last.p_val[1]) = { last.p_val[2] }

\* the number of the last parameter of the table was asked for and found
C23_Witness ==
    /\ last.op = "par_get_num_by_id"
    /\ last.was_init
    /\ last.status = ePAR_OK
    /\ last.p_val[2] = ePAR_NUM_OF(par_cfg_table) - 1

----------------------------------------------------------------------------
(* C24 *)

\* the address of the k-th data object
ObjAddr(k) == PAR_NVM_FIRST_DATA_OBJ_ADDR + ObjStride * k

\* how often par_nvm_load_all read the object at addr with success
LoadReads(log, addr) ==
    Cardinality({ e \in 1..Len(log) :
                    /\ log[e].fn = "par_nvm_load_all"
                    /\ log[e].addr = addr
                    /\ log[e].ok })

\* the LUT has the id of obj at an address where the image mem has an object
\* of that id
Registered(lut, mem, obj) ==
    \E p \in DOMAIN lut :
        /\ lut[p].id = obj.id
        /\ \E k \in 0..(StoredHead(mem).obj_nb - 1) :
               lut[p].addr = ObjAddr(k) /\ StoredObj(mem, k).id = obj.id

\* a par_init that returned r on the image mem and did not abort the load
\* read every object the header counts once and loaded those of the table
LoadedAll(r, mem) ==
    r.status = ePAR_OK =>
        \A k \in 0..(StoredHead(mem).obj_nb - 1) :
            /\ LoadReads(r.m.log, ObjAddr(k)) = 1
            /\ (\E p \in DOMAIN par_cfg_table :
                    par_cfg_table[p].id = StoredObj(mem, k).id) =>
                   Registered(r.m.lut, mem, StoredObj(mem, k))

\* C24: par_nvm_load_all(n) ends, and unless it aborts on a checksum or a
\* driver error it reads every one of the n stored objects once, at
\* first_object_offset + 8 * k, and loads those whose id the table has
C24_LoadAllReadsEveryObject ==
    ~gb_is_init /\ ImageValid(nvm) => LoadedAll(par_init(M, ePAR_OK), nvm)

----------------------------------------------------------------------------
(* C25 *)

\* the addresses of data objects
SlotAddrs == { ObjAddr(k) : k \in 0..(NvmSlots - 1) }

\* every data object a call that returned r wrote went to the address of a
\* data object
WrittenToSlots(r) ==
    \A e \in 1..Len(r.m.log) :
        r.m.log[e].fn = "par_nvm_write" => r.m.log[e].addr \in SlotAddrs

\* the LUT gives every persistent parameter a slot of its own
OwnSlots ==
    \A p, q \in DOMAIN par_cfg_table :
        Persistent(p) /\ Persistent(q) /\ p # q =>
            /\ LutAddr(g_par_nvm_data_obj_addr, par_cfg_table[p].id % 65536, 0)
                   \in SlotAddrs
            /\ LutAddr(g_par_nvm_data_obj_addr, par_cfg_table[p].id % 65536, 0)
                   # LutAddr(g_par_nvm_data_obj_addr, par_cfg_table[q].id % 65536, 0)

\* C25: every data object par_nvm_write writes goes to the slot the LUT
\* gives the id of its parameter, an address first_object_offset + 8 * k of
\* its own; none is written over the header or the hash block, also not for
\* a parameter without a LUT entry or during the load of the image
C25_WritesGoToOwnSlot ==
    /\ ~gb_is_init => WrittenToSlots(par_init(M, ePAR_OK))
    /\ gb_is_init =>
           /\ OwnSlots
           /\ WrittenToSlots(par_save_all(M))
           /\ WrittenToSlots(par_save_clean(M))
           /\ \A p \in DOMAIN par_cfg_table :
                  /\ WrittenToSlots(par_save(M, p))
                  /\ \A val \in SetInputs(par_cfg_table, par_cfg_table[p]) :
                         WrittenToSlots(par_set(M, p, val))

----------------------------------------------------------------------------
(* C26 *)

\* the objects of id that the header of mem counts, by number
ObjsWith(mem, id) ==
    { k \in 0..(StoredHead(mem).obj_nb - 1) : StoredObj(mem, k).id = id }

\* the first of a non-empty set of object numbers
FirstOf(ks) == CHOOSE k \in ks : \A j \in ks : k <= j

\* after a par_init that returned r on the image mem, every persistent
\* parameter that mem has more than one object of has the value and the
\* address of the first of them
FirstWins(r, mem) ==
    \A p \in DOMAIN par_cfg_table :
        Persistent(p) /\ Cardinality(ObjsWith(mem, par_cfg_table[p].id)) > 1 =>
            /\ LiveValue(r.m.buf, r.m.off, par_cfg_table, p)
                   = ValueIn(StoredObj(mem, FirstOf(ObjsWith(mem, par_cfg_table[p].id))), p)
            /\ LutAddr(r.m.lut, par_cfg_table[p].id, 0)
                   = ObjAddr(FirstOf(ObjsWith(mem, par_cfg_table[p].id)))

\* C26: of two stored objects with the same id the first wins: after the
\* load the parameter has the value and the LUT address of the first, and
\* later ones change neither
C26_FirstOccurrenceWins ==
    ~gb_is_init /\ ImageValid(nvm) => FirstWins(par_init(M, ePAR_OK), nvm)

----------------------------------------------------------------------------
(* C27 *)

\* the ids of the descriptors that are persistent
PersistentIds == { par_cfg_table[p].id : p \in { q \in DOMAIN par_cfg_table : Persistent(q) } }

\* after a par_init that returned r, the parameters that are not persistent
\* have their defaults and the LUT has entries of persistent parameters only
OnlyPersistentLoaded(r) ==
    /\ \A p \in DOMAIN par_cfg_table :
           ~Persistent(p) => LiveValue(r.m.buf, r.m.off, par_cfg_table, p) = Default(p)
    /\ \A e \in DOMAIN r.m.lut :
           r.m.lut[e].addr # 0 => r.m.lut[e].id \in PersistentIds

\* after a par_init that returned r on the image mem, a persistent parameter
\* whose one object comes right after an object that is not loaded has the
\* value of its object
LoadedAfterSkipped(r, mem) ==
    \A p \in DOMAIN par_cfg_table :
        \A k \in ObjsWith(mem, par_cfg_table[p].id) :
            /\ Persistent(p)
            /\ ObjsWith(mem, par_cfg_table[p].id) = { k }
            /\ k > 0
            /\ StoredObj(mem, k - 1).id \notin PersistentIds
            => LiveValue(r.m.buf, r.m.off, par_cfg_table, p) = ValueIn(StoredObj(mem, k), p)

\* C27: the load sets a live value and a LUT entry only from an object whose
\* id is that of a descriptor that is persistent; an object of an unknown id
\* or of a descriptor that is not persistent changes neither, and the load
\* goes on with the next object
C27_OnlyPersistentLoaded ==
    ~gb_is_init /\ ImageValid(nvm) =>
        /\ OnlyPersistentLoaded(par_init(M, ePAR_OK))
        /\ LoadedAfterSkipped(par_init(M, ePAR_OK), nvm)

----------------------------------------------------------------------------
(* C28 *)

\* the last call ran par_nvm_reset_all: a par_save_clean, or a par_init
\* that erased the signature
ResetRan ==
    \/ last.op = "par_save_clean" /\ last.was_init
    \/ last.op = "par_init" /\ last.rewrote

\* C28: after par_nvm_reset_all the n-th persistent descriptor of the table
\* (n from 0) resolves through the LUT to first_object_offset + 8 * n, where
\* first_object_offset is the 8 bytes of the header and the 32 of the hash
\* block, and its data object is stored there: its id, size 4, a checksum
\* that verifies, its value in the 4-byte slot
C28_ResetLaysOutInOrder ==
    ResetRan =>
        /\ PAR_NVM_FIRST_DATA_OBJ_ADDR = SizeofHeadObj + PAR_NVM_HASH_SIZE
        /\ \A p \in DOMAIN par_cfg_table :
               Persistent(p) =>
                   /\ LutAddr(g_par_nvm_data_obj_addr, par_cfg_table[p].id, 0)
                          = SizeofHeadObj + PAR_NVM_HASH_SIZE + 8 * Rank(p)
                   /\ ObjAt(nvm, SizeofHeadObj + PAR_NVM_HASH_SIZE + 8 * Rank(p))
                          = Sealed(par_cfg_table[p].id, SlotOf(Live(p)))

\* par_save_clean of a table whose second persistent descriptor is the third
\* of the table, with a value that is not the default
C28_Witness ==
    /\ last.op = "par_save_clean"
    /\ last.was_init
    /\ \E p \in DOMAIN par_cfg_table :
           Persistent(p) /\ Rank(p) = 1 /\ p = 2 /\ Live(p) # Default(p)

----------------------------------------------------------------------------
(* C29 *)

\* where the limit of descriptor d stands among the three values of its
\* type, which are in rising order
Place(d, limit) ==
    CHOOSE k \in 1..3 : RangeValues(d.type)[k] = Member(d.type, limit)

\* min >= max, default > max or default < min
IllDefined(d) ==
    \/ Place(d, d.min) >= Place(d, d.max)
    \/ Place(d, d.def) > Place(d, d.max)
    \/ Place(d, d.def) < Place(d, d.min)

\* C29: par_init of a table with a descriptor whose min >= max, default > max
\* or default < min fails an assertion and the module is never initialized;
\* a table with min < max and min <= default <= max in every descriptor and
\* with distinct ids passes the validation
C29_IllDefinedRangeIsFatal ==
    IF \E i \in DOMAIN par_cfg_table : IllDefined(par_cfg_table[i])
    THEN /\ par_check_table_validy(par_cfg_table).asserted
         /\ ~gb_is_init
    ELSE ~DuplicateId(par_cfg_table) =>
             par_check_table_validy(par_cfg_table)
                 = [status |-> ePAR_OK, asserted |-> FALSE]

----------------------------------------------------------------------------
(* C30 *)

\* the first byte after the value of parameter p
RangeEnd(p) ==
    gu32_par_addr_offset[p] + par_get_type_size(par_cfg_table[p].type)

\* C30: after par_init the offset of every parameter is a multiple of the
\* size of its type, the byte ranges of the parameters do not overlap and
\* rise in table order, and they lie in the live buffer, whose size is the
\* end of the last range
C30_LayoutAlignedAndDisjoint ==
    gb_is_init =>
        /\ \A p \in DOMAIN par_cfg_table :
               /\ gu32_par_addr_offset[p]
                      % par_get_type_size(par_cfg_table[p].type) = 0
               /\ gu32_par_addr_offset[p] >= 0
               /\ p > 0 => RangeEnd(p - 1) <= gu32_par_addr_offset[p]
        /\ DOMAIN gpu8_par_value
               = 0..(RangeEnd(ePAR_NUM_OF(par_cfg_table) - 1) - 1)

\* a one-byte, a two-byte and a four-byte parameter are laid out with a gap
\* after each of the first two, and the last was set
C30_Witness ==
    /\ gb_is_init
    /\ ePAR_NUM_OF(par_cfg_table) = 3
    /\ gu32_par_addr_offset[0] = 0
    /\ gu32_par_addr_offset[1] = 2
    /\ gu32_par_addr_offset[2] = 4
    /\ par_cfg_table[0].type = "I8"
    /\ par_cfg_table[2].type = "F32"
    /\ last.op = "par_set"
    /\ DOMAIN gpu8_par_value = 0..7

----------------------------------------------------------------------------
(* C31 *)

\* the live value of every parameter is the default of its descriptor
AllDefault ==
    \A p \in DOMAIN par_cfg_table :
        Live(p) = Member(par_cfg_table[p].type, par_cfg_table[p].def)

----------------------------------------------------------------------------
(* C32 *)

\* the live value of parameter p lies within [min, max] of its descriptor
WithinRange(p) ==
    /\ LessEq(par_cfg_table[p].type, Min(p), Live(p))
    /\ LessEq(par_cfg_table[p].type, Live(p), Max(p))

\* C32: in the initialized state, after any sequence of par_init, par_set,
\* par_set_to_default and par_set_all_to_default, the live value of every
\* parameter lies within [min, max] of its descriptor
C32_LiveValuesWithinRange ==
    gb_is_init => \A p \in DOMAIN par_cfg_table : WithinRange(p)

----------------------------------------------------------------------------
(* C33 *)

\* if the par_nvm_write of parameter p that returned r returned ePAR_OK, the
\* object at the NVM address of p has the id of p, size 4, a checksum that
\* verifies and the value that was live when the call was made
WroteLive(r, p) ==
    r.status = ePAR_OK =>
        ObjAt(r.m.nvm, par_nvm_get_nvm_lut_addr(M, par_cfg_table[p].id))
            = Sealed(par_cfg_table[p].id, SlotOf(Live(p)))

\* C33: a par_nvm_write of a persistent parameter that returns ePAR_OK has
\* stored, at the NVM address of the parameter, an object with its id, size
\* 4, a valid checksum and its live value, also when the mutex acquisition
\* of the par_get inside fails
C33_WrittenObjectIsLiveValue ==
    gb_is_init =>
        \A p \in DOMAIN par_cfg_table, mfail \in 0..1 :
            par_cfg_table[p].persistant =>
                WroteLive(par_nvm_write(Machine(0, mfail), p), p)

----------------------------------------------------------------------------
(* C34 *)

\* region mem is a complete image of the live values: a header with the
\* count of the persistent parameters and a CRC that verifies, and in the
\* slot of every persistent parameter a valid object with its live value
CompleteImage(mem) ==
    /\ HeaderCrcValid(mem)
    /\ StoredHead(mem).obj_nb = par_nvm_get_per_par(M)
    /\ \A p \in DOMAIN par_cfg_table :
           par_cfg_table[p].persistant =>
               ObjAt(mem, par_nvm_get_nvm_lut_addr(M, par_cfg_table[p].id))
                   = Sealed(par_cfg_table[p].id, SlotOf(Live(p)))

\* the par_nvm_write_all that returned r left a complete image if it left
\* the signature
SignedComplete(r) == SignatureValid(r.m.nvm) => CompleteImage(r.m.nvm)

\* C34: when par_nvm_write_all returns and the NVM has the valid signature,
\* the slot of every persistent parameter holds a valid object with its live
\* value and the count and the CRC of the header are valid, also when one
\* erase or write of the call fails; nothing has failed before the call
C34_SignedImageIsComplete ==
    gb_is_init /\ ~Faulted =>
        \A fail \in 0..MaxCalls : SignedComplete(par_nvm_write_all(Machine(fail, 0)))

----------------------------------------------------------------------------
(* C35 *)

\* status has one of the error bits ePAR_ERROR .. ePAR_ERROR_CRC
HasError(status) == status % ePAR_WARN_SET_TO_DEF # 0

\* C35: after a par_init of a module that was not initialized, the module is
\* initialized if and only if that par_init returned without an error bit
C35_InitializedIffInitOk ==
    last.op = "par_init" /\ ~last.was_init =>
        (gb_is_init <=> ~HasError(last.status))

----------------------------------------------------------------------------
(* C36 *)

\* region mem is valid and complete: signature, header CRC and the checksum
\* of every counted object verify, and every persistent descriptor has an
\* object among them
ValidAndComplete(mem) ==
    /\ ImageValid(mem)
    /\ \A p \in DOMAIN par_cfg_table :
           par_cfg_table[p].persistant =>
               \E obj \in CountedObjs(mem) : obj.id = par_cfg_table[p].id

\* the call that returned r made no write and no erase and left the NVM as
\* it is
NothingWritten(r) ==
    /\ \A e \in 1..Len(r.m.log) : r.m.log[e].op = "read"
    /\ r.m.nvm = nvm

\* C36: par_init on a valid and complete image makes no write and no erase,
\* and the NVM is after it what it was before it, with and without auto-save
C36_InitOnValidImageWritesNothing ==
    ~gb_is_init /\ ValidAndComplete(nvm) => NothingWritten(par_init(M, ePAR_OK))

----------------------------------------------------------------------------
(* C37 *)

\* the machine of the same device in a build without PAR_CFG_AUTO_SAVE
Unsaving == [M EXCEPT !.cfg.auto_save = FALSE]

\* the par_set that returned r stored what the par_set of the build without
\* auto-save, which returned q, stored, and returned no error bit, as q did
SetAsUnsaved(r, q) ==
    /\ r.m.buf = q.m.buf
    /\ ~HasError(q.status)
    /\ ~HasError(r.status)

\* C37: with auto-save, par_set of a parameter that is not persistent stores
\* the limited value and returns a status without an error bit, as it does
\* without auto-save
C37_AutoSaveSetOfVolatile ==
    gb_is_init /\ cfg.auto_save =>
        \A p \in DOMAIN par_cfg_table :
            ~par_cfg_table[p].persistant =>
                \A v \in SetInputs(par_cfg_table, par_cfg_table[p]) :
                    SetAsUnsaved(par_set(M, p, v), par_set(Unsaving, p, v))

----------------------------------------------------------------------------
(* C38 *)

\* the value the NVM object of parameter p holds is the live value of p
StoredIsLive(p) ==
    ObjAt(nvm, par_nvm_get_nvm_lut_addr(M, par_cfg_table[p].id)).data = SlotOf(Live(p))

\* C38: with the mutex and auto-save, when two tasks have called par_set of
\* the same persistent parameter at the same time and both calls have
\* returned, the value in the NVM object of the parameter is its live value
C38_ConcurrentSetsLeaveStoredLive ==
    (\A t \in Tasks : task[t].pc = "returned") =>
        \A p \in DOMAIN par_cfg_table :
            (\A t \in Tasks : task[t].par_num = p) /\ par_cfg_table[p].persistant =>
                StoredIsLive(p)

----------------------------------------------------------------------------
(* C39 *)

\* C39: once any byte of the value slot of a stored object has become any
\* other byte, the checksum of the object does not verify, and the next
\* par_init finds the change and rewrites the NVM
C39_EveryByteChangeDetected ==
    /\ last.op = "value_changed" => ~ObjValid(StoredObj(nvm, last.par_num))
    /\ last.op = "par_init" /\ hist.ctx = "value_changed" /\ hist.done => last.rewrote

====
